---- MODULE Spec2Model ----
(***************************************************************************)
(* Resilient request execution core of the account API client:             *)
(* retrier (retry policy + backoff + request-body replay), error           *)
(* classification, and the circuit-breaker wrapper around every client     *)
(* operation.                                                              *)
(***************************************************************************)
EXTENDS Integers, Sequences, FiniteSets, TLC

VARIABLES cfg, scn, hystrixCfg, breaker, upstreamCalls, opsInvoked, op, fn

vars == <<cfg, scn, hystrixCfg, breaker, upstreamCalls, opsInvoked, op, fn>>

(***************************************************************************)
(* Bounds of the model.                                                    *)
(***************************************************************************)
\* largest NumberOfRetries() a client is configured with
MaxRetries == 2
\* operations invoked in one behaviour of the retry scenarios
MaxOps == 2
\* operations invoked in one behaviour of the breaker scenario
BreakerOps == 23
\* attempts after which a retry loop that never reaches its budget is cut
AttemptCap == MaxRetries + 2
\* largest retry index the pure backoff functions are applied to
MaxDelayIndex == 12

MaxClients == 2
StoreOps == 4

Procs == {"p1", "p2"}

(***************************************************************************)
(* Program constants.                                                      *)
(***************************************************************************)
defaultHystrixErrorPercentageThreshold == 30
\* hystrix opens only after this many calls in its window
requestVolumeThreshold == 20
StatusBadRequest == 400
StatusInternalServerError == 500
StatusNotFound == 404
StatusConflict == 409

(***************************************************************************)
(* Errors.  A Go error is the chain errors.Unwrap walks: a sequence of     *)
(* layers, outermost first; the nil error is the empty chain.              *)
(***************************************************************************)
NilErr == <<>>

Layer(t, code, msg) == [type |-> t, StatusCode |-> code, ErrMsg |-> msg]

\* fmt.Errorf("...: %w", err)
WrapErr(err) == <<Layer("*fmt.wrapError", 0, "")>> \o err

\* what http.Client.Do returns when the exchange fails
UrlError == <<Layer("*url.Error", 0, "")>>

\* context.Canceled
ContextCanceled == <<Layer("*errors.errorString", 0, "context canceled")>>

\* what http.Client.Do returns for a request whose context is cancelled: a
\* *url.Error whose Err is context.Canceled
CanceledUrlError == UrlError \o ContextCanceled

\* errors.New(...)
GenericError == <<Layer("*errors.errorString", 0, "")>>

\* hystrix.ErrCircuitOpen
CircuitError == <<Layer("hystrix.CircuitError", 0, "circuit open")>>

\* errors.As(err, &target) for a target of type t
ErrorsAs(err, t) == \E i \in 1..Len(err) : err[i].type = t

\* the value errors.As stores in the target: the first layer of type t
AsTarget(err, t) ==
  err[CHOOSE i \in 1..Len(err) :
        /\ err[i].type = t
        /\ \A j \in 1..(i - 1) : err[j].type # t]

newRequestErr(statusCode, msg) == <<Layer("*RequestError", statusCode, msg)>>

(***************************************************************************)
(* Responses.                                                              *)
(***************************************************************************)
NilRes == [present |-> FALSE, StatusCode |-> 0]

Response(s) == [present |-> TRUE, StatusCode |-> s]

(***************************************************************************)
(* Request bodies: a reader over bytes that the transport consumes.        *)
(***************************************************************************)
NoBody == [kind |-> "NoBody", unread |-> <<>>, closed |-> FALSE,
           readErr |-> FALSE, closeErr |-> FALSE]

\* io.NopCloser(bytes.NewBuffer(b))
NewBuffer(b) == [kind |-> "reader", unread |-> b, closed |-> FALSE,
                 readErr |-> FALSE, closeErr |-> FALSE]

\* the transport reads the body to the end and closes it
Consume(body) == IF body.kind = "NoBody" THEN body
                 ELSE [body EXCEPT !.unread = <<>>, !.closed = TRUE]

\* a reset that forgets the snapshot
resetBodyEmpty(originalBody) == NewBuffer(<<>>)

\* a reset that leaves a request without a body as it is
resetBodyKeepsNoBody(originalBody) ==
  IF originalBody = <<>> THEN NoBody ELSE NewBuffer(originalBody)

resetBody(originalBody) == NewBuffer(originalBody)

\* a snapshot that reads the body and ignores what closing it returns
copyBodyUnclosed(src) ==
  IF src.readErr THEN [body |-> <<>>, err |-> WrapErr(GenericError)]
  ELSE [body |-> src.unread, err |-> NilErr]

copyBody(src) ==
  IF src.readErr THEN [body |-> <<>>, err |-> WrapErr(GenericError)]
  ELSE IF src.closeErr THEN [body |-> <<>>, err |-> WrapErr(GenericError)]
  ELSE [body |-> src.unread, err |-> NilErr]

(***************************************************************************)
(* Retry policies and backoff strategies.                                  *)
(***************************************************************************)
DefaultRetryPolicy(n) == [kind |-> "default", maxRetries |-> n]

CustomRetryPolicy(n) == [kind |-> "custom", maxRetries |-> n]

\* any other implementation of the RetryPolicy interface
OtherRetryPolicy(n) == [kind |-> "other", maxRetries |-> n]

NumberOfRetries(policy) == policy.maxRetries

\* a default policy that retries every response
DefaultShouldRetryAnyResponse(err, response) ==
  IF ~response.present /\ err = NilErr THEN FALSE
  ELSE (err # NilErr /\ ErrorsAs(err, "*url.Error")) \/ response.present

\* a default policy with a strict comparison against 500
DefaultShouldRetryStrict(err, response) ==
  IF ~response.present /\ err = NilErr THEN FALSE
  ELSE \/ err # NilErr /\ ErrorsAs(err, "*url.Error")
       \/ response.present /\ response.StatusCode > StatusInternalServerError

\* a default policy that looks at the outermost error only
DefaultShouldRetryOutermost(err, response) ==
  IF ~response.present /\ err = NilErr THEN FALSE
  ELSE \/ err # NilErr /\ err[1].type = "*url.Error"
       \/ response.present /\ response.StatusCode >= StatusInternalServerError

\* a default policy that gives up once the context is cancelled
DefaultShouldRetryUnlessCanceled(err, response) ==
  IF ~response.present /\ err = NilErr THEN FALSE
  ELSE IF err # NilErr /\ \E i \in 1..Len(err) : err[i] = ContextCanceled[1]
    THEN FALSE
  ELSE \/ err # NilErr /\ ErrorsAs(err, "*url.Error")
       \/ response.present /\ response.StatusCode >= StatusInternalServerError

\* a default policy that retries every error and every status >= 400
DefaultShouldRetryFrom400(err, response) ==
  IF ~response.present /\ err = NilErr THEN FALSE
  ELSE \/ err # NilErr
       \/ response.present /\ response.StatusCode >= StatusBadRequest

DefaultShouldRetry(err, response) ==
  IF ~response.present /\ err = NilErr THEN FALSE
  ELSE LET errFromHTTPClient == err # NilErr /\ ErrorsAs(err, "*url.Error")
           serverSideStatusCode ==
             response.present /\ response.StatusCode >= StatusInternalServerError
       IN  errFromHTTPClient \/ serverSideStatusCode

\* a custom policy that decides as the default one does
CustomShouldRetryAsDefault(err, response) ==
  IF ~response.present /\ err = NilErr THEN FALSE
  ELSE \/ err # NilErr /\ ErrorsAs(err, "*url.Error")
       \/ response.present /\ response.StatusCode >= StatusInternalServerError

CustomShouldRetry(err, response) ==
  IF response.present THEN response.StatusCode >= StatusBadRequest ELSE FALSE

\* the answers a policy may give for an outcome
ShouldRetryAnswers(policy, err, response) ==
  CASE policy.kind = "default" -> {DefaultShouldRetry(err, response)}
    [] policy.kind = "custom"  -> {CustomShouldRetry(err, response)}
    [] OTHER                   -> BOOLEAN

(***************************************************************************)
(* time.Duration is an int64 count of nanoseconds.  A value is kept as its *)
(* bytes, least significant first, in two's complement, and arithmetic     *)
(* wraps at the width of the operands as Go's integer arithmetic does.     *)
(***************************************************************************)
ByteBase == 256

Int64Bytes == 8

\* twice the width of an int64: wide enough to hold every product exactly
WideBytes == 2 * Int64Bytes

Millisecond == 1000000

\* the k low bytes of the integer x >= 0
ToBytes[x \in Nat, k \in Nat] ==
  IF k = 0 THEN <<>> ELSE <<x % ByteBase>> \o ToBytes[x \div ByteBase, k - 1]

\* time.Duration(x)
Duration(x) == ToBytes[x, Int64Bytes]

\* the bytes of a * s + c from the i-th on, for a byte s and a carry c
MulByteFrom[a \in Seq(Nat), s \in Nat, i \in Nat, c \in Nat] ==
  IF i > Len(a) THEN <<>>
  ELSE <<(a[i] * s + c) % ByteBase>>
         \o MulByteFrom[a, s, i + 1, (a[i] * s + c) \div ByteBase]

\* a * s for a byte s, cut to the width of a
MulByte(a, s) == MulByteFrom[a, s, 1, 0]

\* the bytes of a + b + c from the i-th on, for a carry c
AddBytesFrom[a \in Seq(Nat), b \in Seq(Nat), i \in Nat, c \in Nat] ==
  IF i > Len(a) THEN <<>>
  ELSE <<(a[i] + b[i] + c) % ByteBase>>
         \o AddBytesFrom[a, b, i + 1, (a[i] + b[i] + c) \div ByteBase]

\* a + b, cut to the width of a
AddBytes(a, b) == AddBytesFrom[a, b, 1, 0]

\* a * ByteBase, cut to the width of a
ShiftByte(a) == SubSeq(<<0>> \o a, 1, Len(a))

\* a times the bytes of b from the j-th on, cut to the width of a
MulBytesFrom[a \in Seq(Nat), b \in Seq(Nat), j \in Nat] ==
  IF \A i \in j..Len(b) : b[i] = 0 THEN ToBytes[0, Len(a)]
  ELSE AddBytes(MulByte(a, b[j]), ShiftByte(MulBytesFrom[a, b, j + 1]))

\* a * b for operands of one width, cut to that width
MulBytes(a, b) == MulBytesFrom[a, b, 1]

\* the sign bit of a two's complement value
IsNegative(a) == a[Len(a)] >= ByteBase \div 2

\* the value a at the width of k >= Len(a) bytes
SignExtend(a, k) ==
  a \o [i \in 1..(k - Len(a)) |-> IF IsNegative(a) THEN ByteBase - 1 ELSE 0]

\* x ^ n at the width of k bytes, for a base 0 <= x < ByteBase
PowBytes[x \in Nat, n \in Nat, k \in Nat] ==
  IF n = 0 THEN ToBytes[1, k] ELSE MulByte(PowBytes[x, n - 1, k], x)

\* time.Duration(math.Pow(float64(m), float64(n))) for 0 <= m < ByteBase and
\* m ^ n < 2 ^ 53, where the float64 power is the exact integer and its
\* conversion neither rounds nor leaves the range of int64
Pow(m, n) == PowBytes[m, n, Int64Bytes]

NoBackoffStrategy == [kind |-> "none", delayTime |-> 0, multiplier |-> 0]

LinearBackoffStrategy(d) == [kind |-> "linear", delayTime |-> d, multiplier |-> 0]

ExponentialBackoffStrategy(d, m) ==
  [kind |-> "exponential", delayTime |-> d, multiplier |-> m]

\* the number a Duration of less than 2 ^ 31 nanoseconds stands for
RECURSIVE Nanoseconds(_)
Nanoseconds(a) ==
  IF a = <<>> THEN 0 ELSE a[1] + ByteBase * Nanoseconds(Tail(a))

DelayLinearGrowing(backoff, retryCount) ==
  CASE backoff.kind = "none"   -> Duration(0)
    [] backoff.kind = "linear" -> Duration(backoff.delayTime * (retryCount + 1))
    [] OTHER -> MulBytes(Duration(backoff.delayTime),
                         Pow(backoff.multiplier, retryCount))

Delay(backoff, retryCount) ==
  CASE backoff.kind = "none"   -> Duration(0)
    [] backoff.kind = "linear" -> Duration(backoff.delayTime)
    [] OTHER -> MulBytes(Duration(backoff.delayTime),
                         Pow(backoff.multiplier, retryCount))

(***************************************************************************)
(* Response bodies.  The bytes of a body are a sequence of JSON tokens;    *)
(* a nested, well-formed value is one token of type "obj".                 *)
(***************************************************************************)
Tok(t, v) == [t |-> t, v |-> v]

LBrace == Tok("{", "{")
RBrace == Tok("}", "}")
LBracket == Tok("[", "[")
RBracket == Tok("]", "]")
Colon == Tok(":", ":")
Comma == Tok(",", ",")
Str(v) == Tok("str", v)
Num(v) == Tok("num", v)
Null == Tok("null", "null")
Junk(v) == Tok("junk", v)
Obj(v) == Tok("obj", v)

\* the text of one token
TokText(tok) == IF tok.t = "str" THEN "\"" \o tok.v \o "\"" ELSE tok.v

\* string(responseBody)
RECURSIVE RawText(_)
RawText(b) == IF b = <<>> THEN "" ELSE TokText(Head(b)) \o RawText(Tail(b))

IsValue(tok) == tok.t \in {"str", "num", "null", "obj"}

MemberCount(b) == (Len(b) - 1) \div 4

ValidObject(b) ==
  /\ Len(b) >= 2
  /\ b[1].t = "{"
  /\ b[Len(b)].t = "}"
  /\ \/ Len(b) = 2
     \/ /\ (Len(b) - 1) % 4 = 0
        /\ \A i \in 1..MemberCount(b) :
             /\ b[4 * i - 2].t = "str"
             /\ b[4 * i - 1].t = ":"
             /\ IsValue(b[4 * i])
             /\ b[4 * i + 1].t = (IF i < MemberCount(b) THEN "," ELSE "}")

ValidArray(b) ==
  /\ Len(b) >= 2
  /\ b[1].t = "["
  /\ b[Len(b)].t = "]"
  /\ \/ Len(b) = 2
     \/ /\ Len(b) % 2 = 1
        /\ \A i \in 2..(Len(b) - 1) :
             IF i % 2 = 0 THEN IsValue(b[i]) ELSE b[i].t = ","

\* json.Valid
ValidJSON(b) == \/ Len(b) = 1 /\ IsValue(b[1])
                \/ ValidObject(b)
                \/ ValidArray(b)

\* encoding/json matches struct field names case-insensitively
EqualFoldErrorMessage(key) ==
  key \in {"error_message", "Error_Message", "ERROR_MESSAGE"}

\* decode the members i.. of an object into errResponseBody
RECURSIVE DecodeMembers(_, _, _)
DecodeMembers(b, i, acc) ==
  IF i > MemberCount(b) \/ Len(b) = 2 THEN acc
  ELSE LET key == b[4 * i - 2].v
           val == b[4 * i]
           next ==
             IF ~EqualFoldErrorMessage(key) \/ val.t = "null" THEN acc
             ELSE IF val.t = "str" THEN [acc EXCEPT !.ErrorMessage = val.v]
             ELSE [acc EXCEPT !.err = TRUE]
       IN  DecodeMembers(b, i + 1, next)

\* json.Unmarshal(responseBody, &errResBody)
UnmarshalErrResponseBody(b) ==
  IF ~ValidJSON(b) THEN [err |-> TRUE, ErrorMessage |-> ""]
  ELSE IF ValidObject(b)
         THEN DecodeMembers(b, 1, [err |-> FALSE, ErrorMessage |-> ""])
  ELSE IF Len(b) = 1 /\ b[1].t = "null"
         THEN [err |-> FALSE, ErrorMessage |-> ""]
  ELSE [err |-> TRUE, ErrorMessage |-> ""]

\* a classifier that always takes the raw body as the message
reqErrFromResponseNilOnEmpty(responseBody, statusCode) ==
  LET u == UnmarshalErrResponseBody(responseBody)
  IN  IF u.err
        THEN IF responseBody = <<>> THEN NilErr
             ELSE newRequestErr(0, RawText(responseBody))
      ELSE newRequestErr(statusCode, u.ErrorMessage)

reqErrFromResponseRaw(responseBody, statusCode) ==
  newRequestErr(statusCode, RawText(responseBody))

reqErrFromResponse(responseBody, statusCode) ==
  LET u == UnmarshalErrResponseBody(responseBody)
  IN  IF u.err THEN newRequestErr(statusCode, RawText(responseBody))
      ELSE newRequestErr(statusCode, u.ErrorMessage)

\* json.Unmarshal(resBody, result) for a result of type *AccountResponse
UnmarshalAccountOK(b) ==
  /\ ValidJSON(b)
  /\ \/ ValidObject(b)
     \/ Len(b) = 1 /\ b[1].t = "null"

\* no account: the zero value of the Data field, and an empty store
NoAccount == ""

\* the account data of the requests, as JSON text
AccountData == "{\"id\":\"a1\"}"

\* the JSON document {"data": ...} of an account request or response
Envelope(data) == <<LBrace, Str("data"), Colon, Obj(data), RBrace>>

\* a decoder that leaves the result as it was
UnmarshalAccountZero(b) == NoAccount

\* the Data that json.Unmarshal(resBody, &accountResponse) leaves in
\* accountResponse
UnmarshalAccount(b) ==
  IF ValidObject(b) /\ Len(b) > 2
       /\ \E i \in 1..MemberCount(b) :
            b[4 * i - 2].v = "data" /\ b[4 * i].t = "obj"
    THEN b[4 * (CHOOSE i \in 1..MemberCount(b) :
                  /\ b[4 * i - 2].v = "data" /\ b[4 * i].t = "obj"
                  /\ \A j \in (i + 1)..MemberCount(b) :
                       ~(b[4 * j - 2].v = "data" /\ b[4 * j].t = "obj"))].v
    ELSE NoAccount

EmptyBody == <<>>
BadCountryBody == <<LBrace, Str("error_message"), Colon, Str("bad country"), RBrace>>
ServerErrorBody == <<Junk("server error")>>
AccountBody == <<LBrace, Str("data"), Colon, Obj("{\"id\":\"a1\"}"), RBrace>>
NoFieldBody == <<LBrace, Str("code"), Colon, Str("E1"), RBrace>>
NumFieldBody == <<LBrace, Str("error_message"), Colon, Num("5"), RBrace>>
NullFieldBody == <<LBrace, Str("error_message"), Colon, Null, RBrace>>
FoldFieldBody == <<LBrace, Str("Error_Message"), Colon, Str("dup id"), RBrace>>
TwoFieldBody == <<LBrace, Str("error_code"), Colon, Num("7"), Comma,
                  Str("error_message"), Colon, Str("bad country"), RBrace>>
NullBody == <<Null>>
ArrayBody == <<LBracket, Str("bad country"), RBracket>>
TruncatedBody == <<LBrace, Str("error_message"), Colon>>

\* bodies the upstream answers with
RespBodies == {EmptyBody, BadCountryBody, ServerErrorBody, AccountBody}

\* bodies the error classifier is applied to
FnBodies == RespBodies \cup {NoFieldBody, NumFieldBody, NullFieldBody, FoldFieldBody,
                             TwoFieldBody, NullBody, ArrayBody, TruncatedBody}

\* statuses the upstream answers with
UpstreamStatuses == {200, 404, 500}

FnStatuses == {200, 399, 400, 404, 409, 499, 500, 503}

\* bytes of json.Marshal(accountData)
CreateBody == <<LBrace, Str("data"), Colon, Obj("{\"id\":\"a1\"}"), RBrace>>

(***************************************************************************)
(* An upstream that stores accounts; one account ID is in use.             *)
(***************************************************************************)
\* the status the upstream answers an operation with
UpstreamStatus(stored, kind) ==
  CASE kind = "create" -> IF stored = NoAccount THEN 201 ELSE StatusConflict
    [] kind = "fetch"  -> IF stored = NoAccount THEN StatusNotFound ELSE 200
    [] OTHER           -> IF stored = NoAccount THEN StatusNotFound ELSE 204

\* what the upstream stores once it has answered
UpstreamStored(stored, kind, sent) ==
  CASE kind = "create" /\ stored = NoAccount -> UnmarshalAccount(sent)
    [] kind = "delete"                       -> NoAccount
    [] OTHER                                 -> stored

\* the body of the upstream's response
UpstreamBody(stored, kind, status) ==
  IF status >= StatusBadRequest THEN BadCountryBody
  ELSE IF kind = "delete" THEN EmptyBody
  ELSE Envelope(stored)

(***************************************************************************)
(* Circuit breaker for command "account-client": process-wide state.       *)
(***************************************************************************)
ClosedBreaker == [open |-> FALSE, requests |-> 0, errors |-> 0,
                  canProbe |-> FALSE, probed |-> FALSE, aged |-> FALSE]

ErrorPercent(b) == IF b.requests = 0 THEN 0
                   ELSE (200 * b.errors + b.requests) \div (2 * b.requests)

\* the breaker is open, or trips now that it is asked
IsOpen(b) == \/ b.open
             \/ /\ b.requests >= requestVolumeThreshold
                /\ ErrorPercent(b) > defaultHystrixErrorPercentageThreshold

AllowRequest(b) == ~IsOpen(b) \/ b.canProbe

\* the breaker's bookkeeping for one finished or rejected command
ReportEvent(b, failed) ==
  IF ~failed /\ b.open THEN [ClosedBreaker EXCEPT !.probed = b.probed, !.aged = b.aged]
  ELSE [b EXCEPT !.requests = @ + 1, !.errors = @ + (IF failed THEN 1 ELSE 0)]

\* what the breaker books for a command: a failure or a success
Recorded(failed) == IF failed THEN "failure" ELSE "success"

(***************************************************************************)
(* One client operation.                                                   *)
(***************************************************************************)
NilBytes == [isNil |-> TRUE, bytes |-> <<>>]

Bytes(b) == [isNil |-> FALSE, bytes |-> b]

IdleOp == [pc |-> "idle", kind |-> "none", body |-> NoBody,
           originalBody |-> <<>>, sent |-> <<>>, all500 |-> TRUE, prior5xx |-> TRUE,
           retriesCount |-> 0, sleeps |-> <<>>, res |-> NilRes, err |-> NilErr,
           ret |-> [res |-> NilRes, err |-> NilErr],
           answer |-> FALSE, readBody |-> NilBytes,
           resBody |-> NilBytes, swrErr |-> NilErr,
           rejected |-> FALSE, sawOpen |-> FALSE, probe |-> FALSE, hErr |-> NilErr,
           outNil |-> TRUE, outErr |-> NilErr,
           timedOut |-> FALSE, returned |-> FALSE, recorded |-> "none",
           closeFailed |-> FALSE, cancelAt |-> -1, all4xx |-> TRUE,
           account |-> NoAccount, prev |-> "none", unclosed |-> 0]

Active(p) == op[p].pc \notin {"idle", "done"}

\* what one call of the attempt function can produce: a transport failure
\* (the request may or may not have reached the upstream) or a response
Outcome(status, reached) == [status |-> status, reached |-> reached]

AllOutcomes == {Outcome(0, FALSE)} \cup {Outcome(s, TRUE) : s \in UpstreamStatuses}

\* an upstream that is down: it answers 500, or the exchange fails
FailingOutcomes == {Outcome(0, TRUE), Outcome(StatusInternalServerError, TRUE)}

\* an upstream that is up
HealthyOutcomes == {Outcome(200, TRUE)}

Policies == {DefaultRetryPolicy(n) : n \in -1..MaxRetries} \cup
            {CustomRetryPolicy(n) : n \in -1..MaxRetries} \cup
            {OtherRetryPolicy(n) : n \in -1..MaxRetries}

Backoffs == {NoBackoffStrategy, LinearBackoffStrategy(100 * Millisecond),
             ExponentialBackoffStrategy(1 * Millisecond, 10)}

\* the budget test, passing one retry too late
BudgetReachedLate(retriesCount, maxRetries) == retriesCount > maxRetries

\* the budget test, comparing against the number of attempts
BudgetReachedAttempts(retriesCount, maxRetries) == retriesCount = maxRetries + 1

\* the budget test on a counter that all operations of the client share
BudgetReachedSharedCounter(retriesCount, maxRetries) ==
  upstreamCalls % (maxRetries + 1) = 0

\* the budget test of the retry loop
\* a budget test by order rather than by equality
BudgetReachedOrPassed(retriesCount, maxRetries) == retriesCount >= maxRetries

BudgetReached(retriesCount, maxRetries) == retriesCount = maxRetries

\* retriesCount charged for responses only
NextRetriesCountResponses(retriesCount, outcome) ==
  IF outcome.status = 0 THEN retriesCount ELSE retriesCount + 1

\* retriesCount++ after a retried attempt, whatever its outcome
NextRetriesCount(retriesCount, outcome) == retriesCount + 1

\* retry swallowing the outcome
RetryReturnNil(res, err) == [res |-> NilRes, err |-> NilErr]

\* what retry hands back when it stops
RetryReturn(res, err) == [res |-> res, err |-> err]

\* the attempt function of sendRequestWithRetries
AttemptResultAsRequestErr(outcome) ==
  IF outcome.status = 0
    THEN [res |-> NilRes, err |-> newRequestErr(StatusInternalServerError, "")]
  ELSE [res |-> Response(outcome.status), err |-> NilErr]

\* an attempt function that swallows the failure of the exchange
AttemptResultSwallowed(outcome) ==
  IF outcome.status = 0 THEN [res |-> NilRes, err |-> NilErr]
  ELSE [res |-> Response(outcome.status), err |-> NilErr]

AttemptResult(outcome) ==
  IF outcome.status = 0 THEN [res |-> NilRes, err |-> WrapErr(UrlError)]
  ELSE [res |-> Response(outcome.status), err |-> NilErr]

\* the caller's context is cancelled
CtxDone(p) == op[p].cancelAt >= 0

\* one call of the attempt function: with a cancelled context
\* c.httpClient.Do fails at once, without an exchange
ClientDo(ctxDone, outcome) ==
  IF ctxDone THEN [res |-> NilRes, err |-> WrapErr(CanceledUrlError)]
  ELSE AttemptResult(outcome)

\* an outcome of fn that is an error of the caller's own, no *url.Error
FnFailed == Outcome(-1, FALSE)

\* one call of fn(request) by retry: the client's attempt function, or for a
\* caller that hands retry another fn also a failure of that fn's own
Fn(ctxDone, outcome) ==
  IF outcome = FnFailed THEN [res |-> NilRes, err |-> GenericError]
  ELSE ClientDo(ctxDone, outcome)

\* the exchanges an attempt may meet
AttemptOutcomes(p) ==
  IF CtxDone(p) THEN {Outcome(0, FALSE)}
  ELSE IF scn.name = "store"
    THEN {Outcome(UpstreamStatus(scn.stored, op[p].kind), TRUE)} \cup scn.outcomes
  ELSE scn.outcomes

\* the reads of the final response's body
ResponseReads(p) ==
  IF scn.name = "store"
    THEN {[ok |-> TRUE,
           bytes |-> UpstreamBody(scn.stored, op[p].kind,
                                  op[p].ret.res.StatusCode)]}
    ELSE scn.reads

\* the retried call run without asking the breaker
RunAdmittedAlways(b) == TRUE

\* hystrix.Do runs the retried call only when the breaker admits it
RunAdmitted(b) == AllowRequest(b)

\* the client config before NewAccountClient has returned a client
NilClient == [policy |-> [kind |-> "nil", maxRetries |-> 0],
              backoff |-> NoBackoffStrategy]

\* the last operation before this one that changed the upstream's store
LastChange(o) ==
  IF o.kind \in {"create", "delete"} /\ o.pc = "done" /\ o.outErr = NilErr
    THEN o.kind
    ELSE o.prev

StartOp(p, kind) ==
  /\ cfg # NilClient
  /\ ~Active(p)
  /\ opsInvoked < scn.opLimit
  /\ Cardinality({q \in Procs : Active(q)}) < scn.concurrency
  /\ op' = [op EXCEPT ![p] =
              [IdleOp EXCEPT !.pc = "hystrix", !.kind = kind,
                             !.prev = IF scn.name = "store" THEN LastChange(op[p])
                                      ELSE "none",
                             !.body = IF kind = "create" THEN NewBuffer(CreateBody)
                                      ELSE NoBody]]
  /\ opsInvoked' = opsInvoked + 1
  /\ scn' = IF scn.name = "shared"
              THEN [scn EXCEPT !.calls[scn.using] = @ + 1]
              ELSE scn
  /\ UNCHANGED <<cfg, hystrixCfg, breaker, upstreamCalls, fn>>

CreateAccount(p) == StartOp(p, "create")

FetchAccount(p) == StartOp(p, "fetch")

DeleteAccount(p) == StartOp(p, "delete")

HystrixDo(p) ==
  /\ op[p].pc = "hystrix"
  /\ IF RunAdmitted(breaker)
       THEN /\ op' = [op EXCEPT ![p].pc = "retry",
                                ![p].sawOpen = IsOpen(breaker),
                                ![p].probe = (IsOpen(breaker) /\ breaker.canProbe)]
            /\ breaker' = [breaker EXCEPT !.open = IsOpen(breaker),
                                          !.canProbe = FALSE,
                                          !.probed = (@ \/ IsOpen(breaker))]
       ELSE /\ op' = [op EXCEPT ![p].pc = "sendreq", ![p].rejected = TRUE,
                                ![p].sawOpen = TRUE,
                                ![p].hErr = CircuitError,
                                ![p].recorded = Recorded(TRUE)]
            /\ breaker' = ReportEvent([breaker EXCEPT !.open = TRUE], TRUE)
  /\ UNCHANGED <<cfg, scn, hystrixCfg, upstreamCalls, opsInvoked, fn>>

RetryBegin(p) ==
  /\ op[p].pc = "retry"
  /\ IF op[p].body # NoBody
       THEN LET c == copyBody(op[p].body)
            IN  IF c.err # NilErr
                  THEN op' = [op EXCEPT ![p].pc = "swr",
                                        ![p].ret = [res |-> NilRes,
                                                    err |-> WrapErr(c.err)]]
                  ELSE op' = [op EXCEPT ![p].pc = "attempt",
                                        ![p].originalBody = c.body,
                                        ![p].body = resetBody(c.body)]
       ELSE op' = [op EXCEPT ![p].pc = "attempt"]
  /\ UNCHANGED <<cfg, scn, hystrixCfg, breaker, upstreamCalls, opsInvoked,
               fn>>

\* one call of fn(request): the transport sends what is unread of the body;
\* a response it returns carries a body that is open until someone closes
\* it, and retry assigns the new pair over the old one without closing
DoAttempt(p, outcome, isRetry) ==
  LET r == Fn(CtxDone(p), outcome)
  IN  /\ op' = [op EXCEPT ![p].pc = "check",
                          ![p].sent = Append(@, op[p].body.unread),
                          ![p].body = Consume(@),
                          ![p].all500 = (@ /\ outcome.status = StatusInternalServerError),
                          ![p].all4xx = (@ /\ r.res.present
                                           /\ r.res.StatusCode >= StatusBadRequest
                                           /\ r.res.StatusCode < StatusInternalServerError),
                          ![p].prior5xx = (@ /\ (op[p].sent = <<>> \/
                              (op[p].res.present /\
                               op[p].res.StatusCode >= StatusInternalServerError))),
                          ![p].res = r.res,
                          ![p].err = r.err,
                          ![p].unclosed = @ + (IF r.res.present THEN 1 ELSE 0),
                          ![p].retriesCount =
                            IF isRetry THEN NextRetriesCount(@, outcome) ELSE @]
      /\ upstreamCalls' = upstreamCalls + (IF outcome.reached THEN 1 ELSE 0)
      /\ scn' = IF scn.name = "store" /\ outcome.reached
                  THEN [scn EXCEPT !.stored =
                          UpstreamStored(@, op[p].kind, op[p].body.unread)]
                  ELSE scn
      /\ UNCHANGED <<cfg, hystrixCfg, breaker, opsInvoked, fn>>

FirstAttempt(p) ==
  /\ op[p].pc = "attempt"
  /\ \E outcome \in AttemptOutcomes(p) : DoAttempt(p, outcome, FALSE)

Check(p) ==
  /\ op[p].pc = "check"
  /\ \E ans \in ShouldRetryAnswers(cfg.policy, op[p].err, op[p].res) :
       IF ~ans \/ BudgetReached(op[p].retriesCount, NumberOfRetries(cfg.policy))
         THEN op' = [op EXCEPT ![p].pc = "swr", ![p].answer = ans,
                               ![p].ret = RetryReturn(op[p].res, op[p].err)]
         ELSE op' = [op EXCEPT ![p].pc = "sleep", ![p].answer = ans]
  /\ UNCHANGED <<cfg, scn, hystrixCfg, breaker, upstreamCalls, opsInvoked,
               fn>>

\* the index counted from the attempt about to be made
DelayIndexOfNextAttempt(p) == op[p].retriesCount + 1

DelayIndexCarriedOver(p) == op[p].retriesCount + (opsInvoked - 1)

\* the index retry hands to Delay: its local retriesCount, 0 at its start
DelayIndex(p) == op[p].retriesCount

Sleep(p) ==
  /\ op[p].pc = "sleep"
  /\ Len(op[p].sent) < scn.attemptCap
  /\ op' = [op EXCEPT ![p].pc = "reattempt",
                      ![p].sleeps = Append(@, Delay(cfg.backoff, DelayIndex(p))),
                      ![p].body = resetBody(op[p].originalBody)]
  /\ UNCHANGED <<cfg, scn, hystrixCfg, breaker, upstreamCalls, opsInvoked,
               fn>>

RetryAttempt(p) ==
  /\ op[p].pc = "reattempt"
  /\ \E outcome \in AttemptOutcomes(p) : DoAttempt(p, outcome, TRUE)

\* what io.ReadAll(res.Body) yields: the body bytes, or a read failure
ReadResults == {[ok |-> TRUE, bytes |-> b] : b \in RespBodies} \cup
               {[ok |-> FALSE, bytes |-> <<>>]}

ReadAndClassifyAll(res, rd) ==
  IF ~rd.ok
    THEN [resBody |-> NilBytes, readBody |-> NilBytes, err |-> WrapErr(GenericError)]
    ELSE [resBody |-> NilBytes, readBody |-> Bytes(rd.bytes),
          err |-> reqErrFromResponse(rd.bytes, res.StatusCode)]

\* sendRequestWithRetries once a response is at hand: io.ReadAll of its body
\* (rd is what the read gives), then the classification of a status >= 400;
\* resBody and err are what the function returns, readBody what it has read
ReadAndClassify(res, rd) ==
  IF ~rd.ok
    THEN [resBody |-> NilBytes, readBody |-> NilBytes, err |-> WrapErr(GenericError)]
  ELSE IF res.StatusCode >= StatusBadRequest
    THEN [resBody |-> NilBytes, readBody |-> Bytes(rd.bytes),
          err |-> reqErrFromResponse(rd.bytes, res.StatusCode)]
  ELSE [resBody |-> Bytes(rd.bytes), readBody |-> Bytes(rd.bytes), err |-> NilErr]

\* the deferred function of sendRequestWithRetries, run as it returns: err is
\* the function's err variable, which io.ReadAll has assigned last; when
\* res.Body.Close() fails it logs err.Error(), and calling Error() on a nil
\* error is a nil dereference
DeferredClose(err, errClose) ==
  IF ~errClose THEN "closed"
  ELSE IF err = NilErr THEN "panic"
  ELSE "logged"

\* the part of sendRequestWithRetries after retry has returned (res, err)
SendRequestWithRetries(p) ==
  /\ op[p].pc = "swr"
  /\ IF op[p].ret.err # NilErr
       THEN op' = [op EXCEPT ![p].pc = "report", ![p].resBody = NilBytes,
                             ![p].swrErr = WrapErr(op[p].ret.err)]
     ELSE IF ~op[p].ret.res.present
       THEN op' = [op EXCEPT ![p].pc = "panic"]
     ELSE \E rd \in ResponseReads(p), errClose \in scn.closes :
            LET out == ReadAndClassify(op[p].ret.res, rd)
                err == IF rd.ok THEN NilErr ELSE GenericError
            IN  IF DeferredClose(err, errClose) = "panic"
                  THEN op' = [op EXCEPT ![p].pc = "panic",
                                        ![p].readBody = out.readBody,
                                        ![p].closeFailed = errClose]
                  ELSE op' = [op EXCEPT ![p].pc = "report",
                                        ![p].resBody = out.resBody,
                                        ![p].readBody = out.readBody,
                                        ![p].swrErr = out.err,
                                        ![p].closeFailed = errClose,
                                        ![p].unclosed =
                                          IF errClose THEN @ ELSE @ - 1]
  /\ UNCHANGED <<cfg, scn, hystrixCfg, breaker, upstreamCalls, opsInvoked,
               fn>>

\* a run function that reports a failure whatever the call returned
RunFailedAlways(swrErr) == TRUE

\* a run function that reports the server's failures only
RunFailedOnServerError(swrErr) ==
  /\ swrErr # NilErr
  /\ ~(/\ swrErr[1].type = "*RequestError"
       /\ swrErr[1].StatusCode < StatusInternalServerError)

\* the run function handed to hystrix.Do fails when sendRequestWithRetries
\* returns an error
RunFailed(swrErr) == swrErr # NilErr

\* hystrix.Do returns what the run function returned and records it; when
\* it has returned on its timeout already, the outcome of the run is dropped
HystrixDone(p) ==
  /\ op[p].pc = "report"
  /\ IF op[p].timedOut
       THEN /\ op' = [op EXCEPT ![p].pc = "done"]
            /\ UNCHANGED breaker
       ELSE /\ op' = [op EXCEPT ![p].pc = "sendreq", ![p].hErr = op[p].swrErr,
                                ![p].recorded = Recorded(RunFailed(op[p].swrErr))]
            /\ breaker' = ReportEvent(breaker, RunFailed(op[p].swrErr))
  /\ UNCHANGED <<cfg, scn, hystrixCfg, upstreamCalls, opsInvoked, fn>>

\* sendRequest classifying every failure of hystrix.Do
SendRequestErrClassified(kind, hErr, resBody) ==
  IF hErr # NilErr THEN newRequestErr(StatusInternalServerError, "")
  ELSE IF kind # "delete" /\ ~resBody.isNil /\ ~UnmarshalAccountOK(resBody.bytes)
    THEN WrapErr(GenericError)
  ELSE NilErr

\* the error sendRequest returns once hystrix.Do has returned hErr
SendRequestErr(kind, hErr, resBody) ==
  IF hErr # NilErr THEN WrapErr(hErr)
  ELSE IF kind # "delete" /\ ~resBody.isNil /\ ~UnmarshalAccountOK(resBody.bytes)
    THEN WrapErr(GenericError)
  ELSE NilErr

\* operations handing back the decoded value next to the error
ReturnsNilForDeleteOnly(kind, e) == kind = "delete"

\* no resource comes back: CreateAccount and FetchAccount return nil with an
\* error and &accountResponse without one; DeleteAccount returns an error only
ReturnsNil(kind, e) == e # NilErr \/ kind = "delete"

\* sendRequest returns, and with it CreateAccount / FetchAccount / DeleteAccount
SendRequestReturn(p) ==
  /\ op[p].pc = "sendreq"
  /\ LET e == SendRequestErr(op[p].kind, op[p].hErr, op[p].resBody)
     IN  op' = [op EXCEPT ![p].pc = "done", ![p].returned = TRUE,
                          ![p].outErr = IF e # NilErr THEN WrapErr(e) ELSE NilErr,
                          ![p].outNil = ReturnsNil(op[p].kind, e),
                          ![p].account =
                            IF ReturnsNil(op[p].kind, e) THEN NoAccount
                            ELSE UnmarshalAccount(op[p].resBody.bytes)]
  /\ UNCHANGED <<cfg, scn, hystrixCfg, breaker, upstreamCalls, opsInvoked,
               fn>>

\* hystrix.ErrTimeout
TimeoutError == <<Layer("hystrix.CircuitError", 0, "timeout")>>

\* the places of the run function where time passes: an attempt in flight, a
\* pause, the reading of the response
RunningPcs == {"attempt", "check", "sleep", "reattempt", "swr"}

\* hystrix.Do runs the function it is given on a goroutine of its own and
\* waits for it no longer than the command's Timeout: when that has elapsed
\* it records a failure and returns hystrix.ErrTimeout, which sendRequest and
\* the operation hand to the caller, while the function runs on to its end
HystrixTimeout(p) ==
  /\ op[p].pc \in RunningPcs
  /\ ~op[p].timedOut
  /\ LET e == SendRequestErr(op[p].kind, TimeoutError, NilBytes)
     IN  op' = [op EXCEPT ![p].timedOut = TRUE, ![p].returned = TRUE,
                          ![p].hErr = TimeoutError,
                          ![p].recorded = Recorded(TRUE),
                          ![p].outErr = WrapErr(e),
                          ![p].outNil = ReturnsNil(op[p].kind, e)]
  /\ breaker' = ReportEvent(breaker, TRUE)
  /\ UNCHANGED <<cfg, scn, hystrixCfg, upstreamCalls, opsInvoked, fn>>

\* time passes: the breaker's sleep window elapses and it will let one call probe
SleepWindowElapses ==
  /\ breaker.open
  /\ ~breaker.canProbe
  /\ breaker' = [breaker EXCEPT !.canProbe = TRUE]
  /\ UNCHANGED <<cfg, scn, hystrixCfg, upstreamCalls, opsInvoked, op, fn>>

\* time passes: the samples of the rolling window age out
WindowRolls ==
  /\ breaker.requests > 0
  /\ breaker' = [breaker EXCEPT !.requests = 0, !.errors = 0, !.aged = TRUE]
  /\ UNCHANGED <<cfg, scn, hystrixCfg, upstreamCalls, opsInvoked, op, fn>>

(***************************************************************************)
(* Scenarios and specifications.                                           *)
(***************************************************************************)
NoFn == [name |-> "none", args |-> <<>>, result |-> <<>>]

(***************************************************************************)
(* NewAccountClient.  A base URL is a sequence of tokens: a run of scheme  *)
(* characters that starts with a letter ("letters") or with a digit        *)
(* ("digits"), ":", "/", and a run holding a character no host may hold    *)
(* ("badhost").                                                            *)
(***************************************************************************)
Letters(v) == Tok("letters", v)
Digits(v) == Tok("digits", v)
BadHost(v) == Tok("badhost", v)
Slash == Tok("/", "/")

\* url.ParseRequestURI(rawURL) returns a nil error
ParseRequestURI(rawURL) ==
  IF rawURL = <<>> THEN FALSE
  ELSE LET hasScheme == /\ Len(rawURL) >= 2
                        /\ rawURL[1].t = "letters"
                        /\ rawURL[2].t = ":"
           rest == IF hasScheme THEN SubSeq(rawURL, 3, Len(rawURL)) ELSE rawURL
       IN  IF rawURL[1].t = ":" THEN FALSE
           ELSE IF rest = <<>> \/ rest[1].t # "/" THEN hasScheme
           ELSE IF hasScheme /\ Len(rest) >= 2 /\ rest[2].t = "/"
             THEN \A i \in 3..Len(rest) :
                    (\A j \in 3..i : rest[j].t # "/") => rest[i].t # "badhost"
           ELSE TRUE

ValidAPIURL == <<Letters("http"), Colon, Slash, Slash, Letters("some-api.com")>>
InvalidURL == <<Letters("invalidURL")>>

BaseURLs == {ValidAPIURL, InvalidURL, <<>>,
             <<Letters("localhost"), Colon, Digits("8080")>>,
             <<Digits("127.0.0.1"), Colon, Digits("8080")>>,
             <<Colon, Digits("8080")>>,
             <<Slash, Letters("v1")>>,
             <<Letters("http"), Colon, Slash, Slash, BadHost("some api"),
               Slash, Letters("v1")>>}

\* an http.Client Timeout: whole milliseconds and the nanoseconds left over
Timeout(ms, ns) == [ms |-> ms, ns |-> ns]

\* Duration.Milliseconds()
Milliseconds(d) == d.ms

defaultTimeout == Timeout(10000, 0)

\* a starting ClientConfig with one retry switched on
DefaultConfigRetryingOnce == [HTTPClient |-> Timeout(10000, 0),
                              RetryPolicy |-> DefaultRetryPolicy(1),
                              BackoffStrategy |-> NoBackoffStrategy]

\* the ClientConfig NewAccountClient starts from
DefaultConfig == [HTTPClient |-> defaultTimeout,
                  RetryPolicy |-> DefaultRetryPolicy(0),
                  BackoffStrategy |-> NoBackoffStrategy]

WithRetriesOnDefaultRetryPolicy(maxRetries) ==
  [field |-> "RetryPolicy", value |-> DefaultRetryPolicy(maxRetries)]

WithCustomHTTPClient(timeout) == [field |-> "HTTPClient", value |-> timeout]

WithLinearBackoffStrategy(delay) ==
  [field |-> "BackoffStrategy", value |-> LinearBackoffStrategy(delay)]

\* for _, option := range options { option(&cfg) }
RECURSIVE ApplyOptions(_, _)
ApplyOptions(config, options) ==
  IF options = <<>> THEN config
  ELSE ApplyOptions([config EXCEPT ![Head(options).field] = Head(options).value],
                    Tail(options))

ClientOptions == {WithRetriesOnDefaultRetryPolicy(1),
                  WithCustomHTTPClient(Timeout(0, 999)),
                  WithLinearBackoffStrategy(100 * Millisecond)}

OptionLists == {<<>>} \cup {<<o>> : o \in ClientOptions}
                 \cup {<<o1, o2>> : o1 \in ClientOptions, o2 \in ClientOptions}

\* the settings of the hystrix command "account-client": how many times
\* hystrix.ConfigureCommand has set them, and what to
NoCommand == [commands |-> 0, Timeout |-> 0, ErrorPercentThreshold |-> 0]

\* a command whose settings stay those of the first client built
ConfigureCommandOnce(h, config) ==
  IF h.commands = 0
    THEN [commands |-> 1,
          Timeout |-> Milliseconds(config.HTTPClient),
          ErrorPercentThreshold |-> defaultHystrixErrorPercentageThreshold]
    ELSE [h EXCEPT !.commands = @ + 1]

ConfigureCommand(h, config) ==
  [commands |-> h.commands + 1,
   Timeout |-> Milliseconds(config.HTTPClient),
   ErrorPercentThreshold |-> defaultHystrixErrorPercentageThreshold]

\* NewAccountClient setting the command up before it looks at the URL
NewClientConfiguresFirst(baseURL, options, h) ==
  LET config == ApplyOptions(DefaultConfig, options)
  IN  IF ~ParseRequestURI(baseURL)
        THEN [client |-> NilClient, err |-> WrapErr(UrlError),
              hystrix |-> ConfigureCommand(h, config)]
      ELSE [client |-> [policy |-> config.RetryPolicy,
                        backoff |-> config.BackoffStrategy],
            err |-> NilErr,
            hystrix |-> ConfigureCommand(h, config)]

\* what NewAccountClient(baseURL, options...) returns, and the settings of
\* the command it leaves behind, h being those it finds
NewClient(baseURL, options, h) ==
  IF ~ParseRequestURI(baseURL)
    THEN [client |-> NilClient, err |-> WrapErr(UrlError), hystrix |-> h]
  ELSE LET config == ApplyOptions(DefaultConfig, options)
       IN  [client |-> [policy |-> config.RetryPolicy,
                        backoff |-> config.BackoffStrategy],
            err |-> NilErr,
            hystrix |-> ConfigureCommand(h, config)]

\* the caller builds a client and, from then on, uses the one it was given
NewAccountClient(baseURL, options) ==
  /\ \A p \in Procs : ~Active(p)
  /\ hystrixCfg.commands < MaxClients
  /\ LET new == NewClient(baseURL, options, hystrixCfg)
     IN  /\ fn' = [name |-> "NewAccountClient", args |-> <<baseURL, options>>,
                   result |-> [client |-> new.client, err |-> new.err]]
         /\ cfg' = IF new.err = NilErr THEN new.client ELSE cfg
         /\ hystrixCfg' = new.hystrix
         /\ scn' = IF scn.name = "shared" /\ new.err = NilErr
                     THEN [scn EXCEPT
                             !.clients = Append(@,
                               [client |-> new.client,
                                timeout |-> Milliseconds(
                                  ApplyOptions(DefaultConfig, options).HTTPClient)]),
                             !.using = Len(scn.clients) + 1,
                             !.calls = Append(@, 0)]
                     ELSE scn
  /\ UNCHANGED <<breaker, upstreamCalls, opsInvoked, op>>

\* no operation has run yet
InitOps ==
  /\ breaker = ClosedBreaker
  /\ upstreamCalls = 0
  /\ opsInvoked = 0
  /\ op = [p \in Procs |-> IdleOp]
  /\ fn = NoFn

\* the command as the NewAccountClient call that built the client left it
InitCommon ==
  /\ InitOps
  /\ hystrixCfg = ConfigureCommand(NoCommand, DefaultConfig)

\* a client built with any retry policy and backoff; operations one at a time
Init ==
  /\ InitCommon
  /\ cfg \in [policy : Policies, backoff : Backoffs]
  /\ scn = [name |-> "retry", opLimit |-> MaxOps, procs |-> {"p1"},
            concurrency |-> 1, outcomes |-> AllOutcomes, reads |-> ReadResults,
            attemptCap |-> AttemptCap, closes |-> {FALSE}]

OpStep(p) ==
  \/ CreateAccount(p)
  \/ FetchAccount(p)
  \/ DeleteAccount(p)
  \/ HystrixDo(p)
  \/ RetryBegin(p)
  \/ FirstAttempt(p)
  \/ Check(p)
  \/ Sleep(p)
  \/ RetryAttempt(p)
  \/ SendRequestWithRetries(p)
  \/ HystrixDone(p)
  \/ SendRequestReturn(p)

Next == \E p \in scn.procs : OpStep(p)

Spec == Init /\ [][Next]_vars

\* the retry scenarios again, with the calling thread always scheduled
SpecLive == Init /\ [][Next]_vars /\ WF_vars(Next)

\* the breaker scenario: a client with at most one retry and no backoff, many
\* operations one after the other against an upstream that is down and may
\* come back up
BreakerReads == {[ok |-> TRUE, bytes |-> b] : b \in {ServerErrorBody, AccountBody}}

\* the upstream comes back up
UpstreamRecovers ==
  /\ scn.outcomes = FailingOutcomes
  /\ scn' = [scn EXCEPT !.outcomes = HealthyOutcomes]
  /\ UNCHANGED <<cfg, hystrixCfg, breaker, upstreamCalls, opsInvoked, op, fn>>

InitBreaker ==
  /\ InitCommon
  /\ cfg \in [policy : {DefaultRetryPolicy(0), DefaultRetryPolicy(1)},
              backoff : {NoBackoffStrategy}]
  /\ scn = [name |-> "breaker", opLimit |-> BreakerOps, procs |-> {"p1"},
            concurrency |-> 1, outcomes |-> FailingOutcomes,
            reads |-> BreakerReads, attemptCap |-> AttemptCap, closes |-> {FALSE}]

NextBreaker ==
  \/ \E p \in scn.procs : OpStep(p)
  \/ SleepWindowElapses
  \/ WindowRolls
  \/ UpstreamRecovers

SpecBreaker == InitBreaker /\ [][NextBreaker]_vars

\* the pure functions applied to inputs drawn from bounded sets
\* the backoff scenario: one operation of a client with exponential backoff
\* and as many retries as there are delay indexes, against an upstream that
\* is down
InitBackoff ==
  /\ InitCommon
  /\ cfg \in [policy : {DefaultRetryPolicy(MaxDelayIndex + 1)},
              backoff : {ExponentialBackoffStrategy(1 * Millisecond, 10),
                         ExponentialBackoffStrategy(10 * Millisecond, 10)}]
  /\ scn = [name |-> "backoff", opLimit |-> 1, procs |-> {"p1"},
            concurrency |-> 1, outcomes |-> FailingOutcomes,
            reads |-> BreakerReads, attemptCap |-> MaxDelayIndex + 3,
            closes |-> {FALSE}]

SpecBackoff == InitBackoff /\ [][Next]_vars

\* the construction scenario: no client yet; clients are built from valid and
\* invalid base URLs, and the latest one runs an operation
InitCtor ==
  /\ InitOps
  /\ cfg = NilClient
  /\ hystrixCfg = NoCommand
  /\ scn = [name |-> "ctor", opLimit |-> 1, procs |-> {"p1"},
            concurrency |-> 1, outcomes |-> FailingOutcomes,
            reads |-> BreakerReads, attemptCap |-> AttemptCap, closes |-> {FALSE}]

NextCtor ==
  \/ \E baseURL \in BaseURLs, options \in OptionLists :
       NewAccountClient(baseURL, options)
  \/ \E p \in scn.procs : OpStep(p)

SpecCtor == InitCtor /\ [][NextCtor]_vars

\* the bodies a caller may hand retry with its request: none, one that reads
\* and closes, one whose read fails, one whose close fails
RequestBodies ==
  {NoBody, NewBuffer(CreateBody),
   [NewBuffer(CreateBody) EXCEPT !.readErr = TRUE],
   [NewBuffer(CreateBody) EXCEPT !.closeErr = TRUE]}

\* a caller calls retrier.retry(request, fn) with a request of its own
Retry(p, body) ==
  /\ scn.name = "retrier"
  /\ ~Active(p)
  /\ opsInvoked < scn.opLimit
  /\ op' = [op EXCEPT ![p] = [IdleOp EXCEPT !.pc = "retry", !.kind = "retry",
                                            !.body = body]]
  /\ opsInvoked' = opsInvoked + 1
  /\ UNCHANGED <<cfg, scn, hystrixCfg, breaker, upstreamCalls, fn>>

\* retry has returned its pair to that caller
RetryReturns(p) ==
  /\ op[p].kind = "retry"
  /\ op[p].pc = "swr"
  /\ op' = [op EXCEPT ![p].pc = "done"]
  /\ UNCHANGED <<cfg, scn, hystrixCfg, breaker, upstreamCalls, opsInvoked, fn>>

\* the retrier scenario: retry called on its own with the default policy, any
\* request body and an fn that may answer any status or fail in any way
InitRetrier ==
  /\ InitCommon
  /\ cfg \in [policy : {DefaultRetryPolicy(n) : n \in 0..MaxRetries},
              backoff : {NoBackoffStrategy,
                         LinearBackoffStrategy(100 * Millisecond)}]
  /\ scn = [name |-> "retrier", opLimit |-> MaxOps, procs |-> {"p1"},
            concurrency |-> 1,
            outcomes |-> {Outcome(s, TRUE) : s \in FnStatuses} \cup
                         {Outcome(0, FALSE), FnFailed},
            reads |-> {}, attemptCap |-> AttemptCap, closes |-> {FALSE}]

NextRetrier ==
  \E p \in scn.procs :
    \/ \E body \in RequestBodies : Retry(p, body)
    \/ RetryBegin(p)
    \/ FirstAttempt(p)
    \/ Check(p)
    \/ Sleep(p)
    \/ RetryAttempt(p)
    \/ RetryReturns(p)

SpecRetrier == InitRetrier /\ [][NextRetrier]_vars

\* the caller goes back to a client it built earlier
UseClient(i) ==
  /\ scn.name = "shared"
  /\ \A p \in Procs : ~Active(p)
  /\ i \in 1..Len(scn.clients)
  /\ i # scn.using
  /\ cfg' = scn.clients[i].client
  /\ scn' = [scn EXCEPT !.using = i]
  /\ UNCHANGED <<hystrixCfg, breaker, upstreamCalls, opsInvoked, op, fn>>

\* the shared scenario: one process builds clients with different HTTP
\* timeouts and runs operations now on one, now on another, against an
\* upstream that answers 500 every time; scn keeps the clients built, the
\* one in use and the operations invoked on each
InitShared ==
  /\ InitOps
  /\ cfg = NilClient
  /\ hystrixCfg = NoCommand
  /\ scn = [name |-> "shared", opLimit |-> BreakerOps, procs |-> {"p1"},
            concurrency |-> 1,
            outcomes |-> {Outcome(StatusInternalServerError, TRUE)},
            reads |-> {[ok |-> TRUE, bytes |-> ServerErrorBody]},
            attemptCap |-> AttemptCap, closes |-> {FALSE},
            clients |-> <<>>, using |-> 0, calls |-> <<>>]

NextShared ==
  \/ \E options \in {<<>>, <<WithCustomHTTPClient(Timeout(2000, 0))>>} :
       NewAccountClient(ValidAPIURL, options)
  \/ \E i \in 1..MaxClients : UseClient(i)
  \/ \E p \in scn.procs : OpStep(p)

SpecShared == InitShared /\ [][NextShared]_vars

\* the caller cancels the context of a running operation
CancelContext(p) ==
  /\ scn.name = "cancel"
  /\ Active(p)
  /\ ~CtxDone(p)
  /\ op' = [op EXCEPT ![p].cancelAt = Len(op[p].sent)]
  /\ UNCHANGED <<cfg, scn, hystrixCfg, breaker, upstreamCalls, opsInvoked, fn>>

\* the cancellation scenario: one operation of a client with the default
\* policy and a backoff, whose context the caller may cancel at any point
InitCancel ==
  /\ InitCommon
  /\ cfg \in [policy : {DefaultRetryPolicy(n) : n \in 0..MaxRetries},
              backoff : {LinearBackoffStrategy(100 * Millisecond),
                         ExponentialBackoffStrategy(1 * Millisecond, 10)}]
  /\ scn = [name |-> "cancel", opLimit |-> 1, procs |-> {"p1"},
            concurrency |-> 1, outcomes |-> AllOutcomes,
            reads |-> BreakerReads, attemptCap |-> AttemptCap,
            closes |-> {FALSE}]

NextCancel ==
  \/ \E p \in scn.procs : OpStep(p)
  \/ \E p \in scn.procs : CancelContext(p)

SpecCancel == InitCancel /\ [][NextCancel]_vars

\* an upstream that also refuses requests: 404 for an unknown account, 409
\* for a duplicate one
RefusingOutcomes == AllOutcomes \cup {Outcome(StatusConflict, TRUE)}

\* the custom policy scenario: a client whose policy retries every response
\* of status >= 400
InitCustom ==
  /\ InitCommon
  /\ cfg \in [policy : {CustomRetryPolicy(n) : n \in 0..MaxRetries},
              backoff : {NoBackoffStrategy,
                         LinearBackoffStrategy(100 * Millisecond)}]
  /\ scn = [name |-> "custom", opLimit |-> 1, procs |-> {"p1"},
            concurrency |-> 1, outcomes |-> RefusingOutcomes,
            reads |-> {[ok |-> TRUE, bytes |-> b] : b \in RespBodies},
            attemptCap |-> AttemptCap, closes |-> {FALSE}]

SpecCustom == InitCustom /\ [][Next]_vars

\* the store scenario: create, fetch and delete of one account, one after
\* the other, against an upstream that stores accounts and starts empty
InitStore ==
  /\ InitCommon
  /\ cfg \in [policy : {DefaultRetryPolicy(0), DefaultRetryPolicy(1),
                        CustomRetryPolicy(1)},
              backoff : {NoBackoffStrategy}]
  /\ scn = [name |-> "store", opLimit |-> StoreOps, procs |-> {"p1"},
            concurrency |-> 1, outcomes |-> {Outcome(0, FALSE)},
            reads |-> {}, attemptCap |-> AttemptCap, closes |-> {FALSE},
            stored |-> NoAccount]

SpecStore == InitStore /\ [][Next]_vars

\* the concurrency scenario: two callers run operations on one client, side
\* by side, against an upstream that refuses or fails every request
InitConc ==
  /\ InitCommon
  /\ cfg \in [policy : {DefaultRetryPolicy(1)}, backoff : {NoBackoffStrategy}]
  /\ scn = [name |-> "conc", opLimit |-> BreakerOps, procs |-> Procs,
            concurrency |-> 2,
            outcomes |-> {Outcome(StatusNotFound, TRUE),
                          Outcome(StatusInternalServerError, TRUE)},
            reads |-> {[ok |-> TRUE, bytes |-> BadCountryBody]},
            attemptCap |-> AttemptCap, closes |-> {FALSE}]

SpecConc == InitConc /\ [][Next]_vars

\* the close scenario: one operation of a client with at most one retry whose
\* response body may fail to close
InitClose ==
  /\ InitCommon
  /\ cfg \in [policy : {DefaultRetryPolicy(0), DefaultRetryPolicy(1)},
              backoff : {NoBackoffStrategy}]
  /\ scn = [name |-> "close", opLimit |-> 1, procs |-> {"p1"},
            concurrency |-> 1, outcomes |-> AllOutcomes,
            reads |-> ReadResults, attemptCap |-> AttemptCap,
            closes |-> BOOLEAN]

SpecClose == InitClose /\ [][Next]_vars

\* the timeout scenario: one operation of a client with at most one retry and
\* a linear backoff, during which the command's Timeout may elapse
InitTimeout ==
  /\ InitCommon
  /\ cfg \in [policy : {DefaultRetryPolicy(0), DefaultRetryPolicy(1)},
              backoff : {LinearBackoffStrategy(100 * Millisecond)}]
  /\ scn = [name |-> "timeout", opLimit |-> 1, procs |-> {"p1"},
            concurrency |-> 1, outcomes |-> AllOutcomes,
            reads |-> BreakerReads, attemptCap |-> AttemptCap, closes |-> {FALSE}]

NextTimeout ==
  \/ \E p \in scn.procs : OpStep(p)
  \/ \E p \in scn.procs : HystrixTimeout(p)

SpecTimeout == InitTimeout /\ [][NextTimeout]_vars

FnErrs == {NilErr, UrlError, WrapErr(UrlError), WrapErr(WrapErr(UrlError)),
           GenericError, WrapErr(GenericError), CircuitError,
           newRequestErr(StatusInternalServerError, "")}

FnResponses == {NilRes} \cup {Response(s) : s \in FnStatuses}

FnBackoffs == Backoffs \cup {ExponentialBackoffStrategy(10 * Millisecond, 10),
                             ExponentialBackoffStrategy(3 * Millisecond, 2),
                             ExponentialBackoffStrategy(1 * Millisecond, 1),
                             ExponentialBackoffStrategy(1 * Millisecond, 0),
                             LinearBackoffStrategy(7 * Millisecond)}

ApplyShouldRetry ==
  /\ \E n \in 0..MaxRetries, e \in FnErrs, r \in FnResponses :
       fn' = [name |-> "ShouldRetry", args |-> <<e, r, n>>,
              result |-> DefaultShouldRetry(e, r)]
  /\ UNCHANGED <<cfg, scn, hystrixCfg, breaker, upstreamCalls, opsInvoked,
               op>>

ApplyReqErrFromResponse ==
  /\ \E b \in FnBodies, s \in FnStatuses :
       fn' = [name |-> "reqErrFromResponse", args |-> <<b, s>>,
              result |-> reqErrFromResponse(b, s)]
  /\ UNCHANGED <<cfg, scn, hystrixCfg, breaker, upstreamCalls, opsInvoked,
               op>>

FnReads == {[ok |-> TRUE, bytes |-> b] : b \in FnBodies} \cup
           {[ok |-> FALSE, bytes |-> <<>>]}

ApplyReadAndClassify ==
  /\ \E s \in FnStatuses, rd \in FnReads :
       fn' = [name |-> "sendRequestWithRetries", args |-> <<s, rd>>,
              result |-> ReadAndClassify(Response(s), rd)]
  /\ UNCHANGED <<cfg, scn, hystrixCfg, breaker, upstreamCalls, opsInvoked,
               op>>

ApplyDelay ==
  /\ \E b \in FnBackoffs, n \in 0..MaxDelayIndex :
       fn' = [name |-> "Delay", args |-> <<b, n>>, result |-> Delay(b, n)]
  /\ UNCHANGED <<cfg, scn, hystrixCfg, breaker, upstreamCalls, opsInvoked,
               op>>

InitFn ==
  /\ InitCommon
  /\ cfg = [policy |-> DefaultRetryPolicy(0), backoff |-> NoBackoffStrategy]
  /\ scn = [name |-> "fn", opLimit |-> 0, procs |-> {}, concurrency |-> 0,
            outcomes |-> {}, reads |-> {}, attemptCap |-> 0,
            closes |-> {}]

NextFn ==
  \/ ApplyShouldRetry
  \/ ApplyReqErrFromResponse
  \/ ApplyReadAndClassify
  \/ ApplyDelay

SpecFn == InitFn /\ [][NextFn]_vars

(***************************************************************************)
(* Properties.                                                             *)
(***************************************************************************)
Attempts(p) == Len(op[p].sent)

\* retry has returned to sendRequestWithRetries
RetryReturned(p) == op[p].pc \in {"swr", "report", "sendreq", "done", "panic"}
                    /\ ~op[p].rejected

\* sendRequestWithRetries has returned
SwrReturned(p) == op[p].pc \in {"report", "sendreq", "done"} /\ ~op[p].rejected

IsSuccess(res) == res.present /\ res.StatusCode < StatusBadRequest

\* C1: with DefaultRetryPolicy{maxRetries: N}, N >= 0, and an upstream that
\* answers every attempt with 500, retry makes exactly N + 1 attempts and the
\* retried call ends with a RequestError of status 500 (the body of the last
\* response having been read)
C1_AlwaysFailingMakesNPlusOneAttempts ==
  \A p \in Procs :
    (/\ cfg.policy.kind = "default"
     /\ cfg.policy.maxRetries >= 0
     /\ op[p].all500
     /\ Attempts(p) > 0
     /\ RetryReturned(p))
    => /\ Attempts(p) = cfg.policy.maxRetries + 1
       /\ op[p].ret = [res |-> Response(500), err |-> NilErr]
       /\ (SwrReturned(p) /\ ~op[p].readBody.isNil)
            => /\ Len(op[p].swrErr) = 1
               /\ op[p].swrErr[1].type = "*RequestError"
               /\ op[p].swrErr[1].StatusCode = 500

C1_Witness ==
  \E p \in Procs :
    /\ cfg.policy = DefaultRetryPolicy(2)
    /\ op[p].pc = "done"
    /\ op[p].all500
    /\ Attempts(p) = 3
    /\ ErrorsAs(op[p].outErr, "*RequestError")
    /\ AsTarget(op[p].outErr, "*RequestError").StatusCode = 500

\* C2: when the first k attempts fail with a status >= 500 and the next one
\* succeeds, retry stops at once: no sleep and no attempt follows the success,
\* the successful response is what retry returns, and it took k + 1 attempts
\* and k sleeps
C2_SuccessAfterFailuresStopsRetrying ==
  \A p \in Procs :
    (/\ cfg.policy.kind \in {"default", "custom"}
     /\ cfg.policy.maxRetries >= 0
     /\ IsSuccess(op[p].res)
     /\ op[p].prior5xx)
    => /\ op[p].pc \notin {"sleep", "reattempt"}
       /\ Attempts(p) = op[p].retriesCount + 1
       /\ Len(op[p].sleeps) = op[p].retriesCount
       /\ op[p].retriesCount <= cfg.policy.maxRetries
       /\ RetryReturned(p) => op[p].ret = [res |-> op[p].res, err |-> NilErr]

C2_Witness ==
  \E p \in Procs :
    /\ cfg.policy = DefaultRetryPolicy(2)
    /\ op[p].pc = "done"
    /\ op[p].prior5xx
    /\ Attempts(p) = 2
    /\ Len(op[p].sleeps) = 1
    /\ op[p].ret.res = Response(200)
    /\ op[p].outErr = NilErr

\* C3: every attempt of a request with a body sends the bytes of the original
\* body, and the body handed to each attempt is fresh and unconsumed
C3_EveryAttemptSendsOriginalBody ==
  \A p \in Procs :
    op[p].kind = "create"
    => /\ \A i \in 1..Attempts(p) : op[p].sent[i] = CreateBody
       /\ op[p].pc \in {"attempt", "reattempt"}
            => /\ op[p].body.unread = CreateBody
               /\ ~op[p].body.closed

C3_Witness ==
  \E p \in Procs :
    /\ op[p].kind = "create"
    /\ Attempts(p) = 3
    /\ op[p].body.closed
    /\ \A i \in 1..3 : op[p].sent[i] = CreateBody

\* C4: retry returns the outcome of the last attempt it made, also when the
\* budget is exhausted while the policy still answers 'retry'; never nil/nil
C4_RetryReturnsLastOutcome ==
  \A p \in Procs :
    (RetryReturned(p) /\ Attempts(p) > 0)
    => /\ op[p].ret = [res |-> op[p].res, err |-> op[p].err]
       /\ op[p].ret.res.present \/ op[p].ret.err # NilErr
       /\ op[p].pc # "panic"

C4_Witness ==
  \E p \in Procs :
    /\ cfg.policy.maxRetries = 2
    /\ op[p].retriesCount = 2
    /\ op[p].answer
    /\ op[p].pc = "done"
    /\ op[p].ret = [res |-> NilRes, err |-> WrapErr(UrlError)]
    /\ op[p].outErr # NilErr

\* C5: the table of DefaultRetryPolicy.ShouldRetry
C5_DefaultShouldRetryTable ==
  fn.name = "ShouldRetry" =>
    LET e == fn.args[1]
        r == fn.args[2]
    IN  /\ (e = NilErr /\ ~r.present) => fn.result = FALSE
        /\ (e = NilErr /\ r.present /\ r.StatusCode < 500) => fn.result = FALSE
        /\ (e = NilErr /\ r.present /\ r.StatusCode >= 500) => fn.result = TRUE
        /\ (e \in {UrlError, WrapErr(UrlError), WrapErr(WrapErr(UrlError))}
            /\ ~r.present) => fn.result = TRUE
        /\ (e \in {GenericError, WrapErr(GenericError), CircuitError,
                   newRequestErr(500, "")}
            /\ ~r.present) => fn.result = FALSE

C5_Witness ==
  /\ fn.name = "ShouldRetry"
  /\ fn.args[1] = NilErr
  /\ fn.args[2] = Response(500)
  /\ fn.result = TRUE

\* C6: with NumberOfRetries() = 0 retry makes exactly one attempt and never
\* sleeps, whatever ShouldRetry answers, and returns that attempt's outcome
C6_ZeroRetriesMeansOneAttempt ==
  \A p \in Procs :
    cfg.policy.maxRetries = 0
    => /\ Attempts(p) <= 1
       /\ op[p].sleeps = <<>>
       /\ op[p].pc \notin {"sleep", "reattempt"}
       /\ RetryReturned(p)
            => /\ Attempts(p) = 1
               /\ op[p].ret.res = op[p].res
               /\ op[p].ret.err = op[p].err

C6_Witness ==
  \E p \in Procs :
    /\ cfg.policy = OtherRetryPolicy(0)
    /\ op[p].answer
    /\ op[p].pc = "done"
    /\ Attempts(p) = 1
    /\ op[p].res = Response(404)

\* C7: with NumberOfRetries() = N >= 0, whatever the policy and the outcomes,
\* retry never makes more than N + 1 attempts, every retried attempt is charged
\* to the one budget, and retry returns
C7_Bounded ==
  \A p \in Procs :
    cfg.policy.maxRetries >= 0
    => /\ Attempts(p) <= cfg.policy.maxRetries + 1
       /\ op[p].retriesCount <= cfg.policy.maxRetries
       /\ Attempts(p) > 0 => op[p].retriesCount = Attempts(p) - 1

C7_RetryTerminatesWithinBudget ==
  /\ []C7_Bounded
  /\ \A p \in Procs :
       [](cfg.policy.maxRetries >= 0 /\ op[p].pc = "retry" => <>RetryReturned(p))

C7_Witness ==
  \E p \in Procs :
    /\ cfg.policy = OtherRetryPolicy(2)
    /\ RetryReturned(p)
    /\ Attempts(p) = 3
    /\ op[p].retriesCount = 2
    /\ op[p].err # NilErr
    /\ ~op[p].all500

\* C8: an operation that finds the breaker open, and is not let through as a
\* probe, returns an error without the retrier running and without any
\* attempt; so when every operation fails, no sample has aged out of the
\* window and no probe was let through, more than
\* requestVolumeThreshold * (N + 1) operations leave the upstream with fewer
\* requests than operations invoked
C8_OpenBreakerShortCircuits ==
  /\ \A p \in Procs :
       (op[p].sawOpen /\ ~op[p].probe)
       => /\ op[p].rejected
          /\ op[p].pc \in {"sendreq", "done"}
          /\ Attempts(p) = 0
          /\ op[p].sleeps = <<>>
          /\ op[p].hErr # NilErr
          /\ op[p].pc = "done" => op[p].outErr # NilErr
  /\ (/\ \A p \in Procs : ~Active(p)
      /\ ~breaker.aged
      /\ ~breaker.probed
      /\ breaker.errors = opsInvoked
      /\ opsInvoked > requestVolumeThreshold * (cfg.policy.maxRetries + 1))
     => upstreamCalls < opsInvoked

C8_Witness ==
  \E p \in Procs :
    /\ op[p].pc = "done"
    /\ op[p].sawOpen
    /\ op[p].rejected
    /\ ~breaker.aged
    /\ ~breaker.probed
    /\ breaker.errors = opsInvoked
    /\ opsInvoked = requestVolumeThreshold + 1
    /\ upstreamCalls = requestVolumeThreshold

\* C9: an operation rejected by the open breaker returns a non-nil error that
\* is not a *RequestError, as does one whose last attempt was a transport
\* failure; a *RequestError is returned only when a response was obtained
C9_BreakerOpenErrorIsNotRequestError ==
  \A p \in Procs :
    op[p].pc = "done"
    => /\ op[p].rejected
            => /\ op[p].outErr # NilErr
               /\ ~ErrorsAs(op[p].outErr, "*RequestError")
       /\ (~op[p].rejected /\ op[p].err # NilErr)
            => /\ op[p].outErr # NilErr
               /\ ~ErrorsAs(op[p].outErr, "*RequestError")
       /\ ErrorsAs(op[p].outErr, "*RequestError")
            => /\ op[p].ret.res.present
               /\ Attempts(p) > 0
               /\ AsTarget(op[p].outErr, "*RequestError").StatusCode
                    = op[p].ret.res.StatusCode

C9_Witness ==
  \E p \in Procs :
    /\ op[p].pc = "done"
    /\ op[p].rejected
    /\ op[p].outErr = WrapErr(WrapErr(CircuitError))
    /\ breaker.open

\* C10: reqErrFromResponse on a JSON object with a string field error_message
\* gives a RequestError with the given status and that field's value as the
\* message; on an empty body, the given status and an empty message
C10_ClassifierOnErrorMessageAndEmptyBody ==
  fn.name = "reqErrFromResponse" =>
    /\ fn.args[1] \in {BadCountryBody, TwoFieldBody}
         => fn.result = <<[type |-> "*RequestError", StatusCode |-> fn.args[2],
                           ErrMsg |-> "bad country"]>>
    /\ fn.args[1] = EmptyBody
         => fn.result = <<[type |-> "*RequestError", StatusCode |-> fn.args[2],
                           ErrMsg |-> ""]>>

C10_Witness ==
  /\ fn.name = "reqErrFromResponse"
  /\ fn.args = <<BadCountryBody, 400>>
  /\ fn.result = <<[type |-> "*RequestError", StatusCode |-> 400,
                    ErrMsg |-> "bad country"]>>

\* bodies that are not an object holding a string error_message: absent or
\* empty, not JSON, cut short, another JSON value, an object without the field
UnshapedBodies == {EmptyBody, ServerErrorBody, TruncatedBody, NullBody, ArrayBody,
                   NumFieldBody, NoFieldBody, AccountBody}

\* C11: for a body that is absent, empty, malformed or without an
\* error_message field, the message of the RequestError that
\* reqErrFromResponse builds is the raw body decoded as text
C11_UnshapedBodyFallsBackToRawText ==
  (fn.name = "reqErrFromResponse" /\ fn.args[1] \in UnshapedBodies)
  => /\ Len(fn.result) = 1
     /\ fn.result[1].type = "*RequestError"
     /\ fn.result[1].ErrMsg = RawText(fn.args[1])

\* C12: for every response status >= 400 and every body read from it (empty
\* and unparseable ones included), sendRequestWithRetries returns a nil body
\* and a non-nil error that is exactly a *RequestError whose StatusCode is the
\* status of that response
C12_ErrorStatusAlwaysGivesRequestError ==
  (/\ fn.name = "sendRequestWithRetries"
   /\ fn.args[1] >= StatusBadRequest
   /\ fn.args[2].ok)
  => /\ fn.result.err # NilErr
     /\ Len(fn.result.err) = 1
     /\ fn.result.err[1].type = "*RequestError"
     /\ fn.result.err[1].StatusCode = fn.args[1]
     /\ fn.result.resBody.isNil

C12_Witness ==
  /\ fn.name = "sendRequestWithRetries"
  /\ fn.args = <<StatusInternalServerError, [ok |-> TRUE, bytes |-> ServerErrorBody]>>
  /\ fn.result.err = newRequestErr(StatusInternalServerError, "server error")

\* C13: only a final response of status >= 400 is classified: whenever
\* sendRequestWithRetries returns a RequestError the response retry returned
\* had a status >= 400, and for a final response of status < 400 the error is
\* never a RequestError: once its body is read, those bytes are returned
\* with a nil error
C13_OnlyErrorStatusIsClassified ==
  \A p \in Procs :
    SwrReturned(p)
    => /\ ErrorsAs(op[p].swrErr, "*RequestError")
            => /\ op[p].ret.res.present
               /\ op[p].ret.res = op[p].res
               /\ op[p].ret.res.StatusCode >= StatusBadRequest
       /\ (op[p].ret.err = NilErr /\ IsSuccess(op[p].ret.res)
           /\ ~op[p].readBody.isNil)
            => /\ op[p].swrErr = NilErr
               /\ ~op[p].resBody.isNil
               /\ op[p].resBody = op[p].readBody

C13_Witness ==
  \E p \in Procs :
    /\ op[p].pc = "done"
    /\ op[p].prior5xx
    /\ op[p].ret.res = Response(200)
    /\ op[p].swrErr = NilErr
    /\ op[p].resBody = Bytes(ServerErrorBody)

\* C14: when the last attempt of an operation ended in a transport failure
\* (an error and no response), the operation returns no value and a non-nil
\* error that wraps the transport error, is not a *RequestError and carries
\* no status code in any layer, with retries configured or not
C14_TransportFailureIsNotRequestError ==
  \A p \in Procs :
    (/\ op[p].pc = "done"
     /\ ~op[p].rejected
     /\ Attempts(p) > 0
     /\ ~op[p].res.present)
    => /\ op[p].err # NilErr
       /\ op[p].outErr # NilErr
       /\ op[p].outNil
       /\ ErrorsAs(op[p].outErr, "*url.Error")
       /\ ~ErrorsAs(op[p].outErr, "*RequestError")
       /\ \A i \in 1..Len(op[p].outErr) : op[p].outErr[i].StatusCode = 0

C14_Witness ==
  \E p \in Procs :
    /\ cfg.policy = DefaultRetryPolicy(2)
    /\ op[p].pc = "done"
    /\ Attempts(p) = 3
    /\ op[p].retriesCount = 2
    /\ ~op[p].res.present
    /\ ErrorsAs(op[p].outErr, "*url.Error")

\* d * m ^ n computed without wrapping, at twice the width of an int64
ExactProduct(d, m, n) ==
  MulBytes(ToBytes[d, WideBytes], PowBytes[m, n, WideBytes])

\* C15: for every n >= 0, ExponentialBackoffStrategy{initialDelay: d,
\* multiplier: m}.Delay(n) is the number d * m ^ n; with d = 10ms, m = 10 and
\* n = 2 it is one second
C15_ExponentialDelayIsGeometric ==
  (fn.name = "Delay" /\ fn.args[1].kind = "exponential")
  => /\ SignExtend(fn.result, WideBytes)
          = ExactProduct(fn.args[1].delayTime, fn.args[1].multiplier, fn.args[2])
     /\ (fn.args = <<ExponentialBackoffStrategy(10 * Millisecond, 10), 2>>)
          => fn.result = Duration(1000 * Millisecond)

\* C16: LinearBackoffStrategy{delayTime: d}.Delay(n) is d for every attempt
\* index n
C16_LinearDelayIsConstant ==
  (fn.name = "Delay" /\ fn.args[1].kind = "linear")
  => /\ Len(fn.result) = Int64Bytes
     /\ ~IsNegative(fn.result)
     /\ Nanoseconds(fn.result) = fn.args[1].delayTime

C16_Witness ==
  /\ fn.name = "Delay"
  /\ fn.args = <<LinearBackoffStrategy(100 * Millisecond), MaxDelayIndex>>
  /\ Nanoseconds(fn.result) = 100 * Millisecond

\* m ^ n as a number
RECURSIVE Power(_, _)
Power(m, n) == IF n = 0 THEN 1 ELSE m * Power(m, n - 1)

\* the pause, in nanoseconds, a strategy is to give for an index
ExpectedDelay(backoff, index) ==
  CASE backoff.kind = "none"   -> 0
    [] backoff.kind = "linear" -> backoff.delayTime
    [] OTHER -> backoff.delayTime * Power(backoff.multiplier, index)

\* C17: the strategy keeps no counter between calls: in every operation on a
\* client, the first or a later one, the i-th pause is Delay(i - 1), so a
\* sequence that follows an exhausted one starts again from index 0 and
\* sleeps the same delays
C17_EverySequenceStartsAtIndexZero ==
  \A p \in Procs :
    \A i \in 1..Len(op[p].sleeps) :
      /\ ~IsNegative(op[p].sleeps[i])
      /\ Nanoseconds(op[p].sleeps[i]) = ExpectedDelay(cfg.backoff, i - 1)

C17_Witness ==
  \E p \in Procs :
    /\ cfg = [policy |-> DefaultRetryPolicy(2),
              backoff |-> ExponentialBackoffStrategy(1 * Millisecond, 10)]
    /\ opsInvoked = 2
    /\ upstreamCalls = 6
    /\ op[p].pc = "done"
    /\ op[p].all500
    /\ op[p].sleeps = <<Duration(1 * Millisecond), Duration(10 * Millisecond)>>

\* the time time.Sleep(d) pauses for: it returns at once when d <= 0
Slept(d) == IF IsNegative(d) THEN Duration(0) ELSE d

\* the sum of the pauses, without wrapping
RECURSIVE TotalSlept(_)
TotalSlept(sleeps) ==
  IF sleeps = <<>> THEN ToBytes[0, WideBytes]
  ELSE AddBytes(SignExtend(Slept(Head(sleeps)), WideBytes),
                TotalSlept(Tail(sleeps)))

\* d + d * m + ... + d * m ^ (n - 1), without wrapping
RECURSIVE GeometricSum(_, _, _)
GeometricSum(d, m, n) ==
  IF n = 0 THEN ToBytes[0, WideBytes]
  ELSE AddBytes(ExactProduct(d, m, n - 1), GeometricSum(d, m, n - 1))

\* retry has used up the N retries of its policy
Exhausted(p) ==
  /\ RetryReturned(p)
  /\ cfg.policy.maxRetries >= 0
  /\ op[p].retriesCount = cfg.policy.maxRetries

\* C18: an operation with exponential backoff (d, m) that has used up its N
\* retries has slept d + d*m + ... + d*m^(N-1) in all between its attempts
C18_ExhaustedSequenceSleepsGeometricSum ==
  \A p \in Procs :
    (Exhausted(p) /\ cfg.backoff.kind = "exponential")
    => /\ Len(op[p].sleeps) = cfg.policy.maxRetries
       /\ TotalSlept(op[p].sleeps)
            = GeometricSum(cfg.backoff.delayTime, cfg.backoff.multiplier,
                           cfg.policy.maxRetries)

\* C19: a call of NewAccountClient with a base URL that url.ParseRequestURI
\* rejects returns a nil client and a non-nil error and has no other effect:
\* no request reaches the upstream, the settings of the hystrix command and
\* the breaker stay as they were, and the caller's client is not replaced
C19_InvalidURLFailsBeforeAnyEffect ==
  [][(/\ fn' # fn
      /\ fn'.name = "NewAccountClient"
      /\ ~ParseRequestURI(fn'.args[1]))
     => /\ fn'.result.client = NilClient
        /\ fn'.result.err # NilErr
        /\ hystrixCfg' = hystrixCfg
        /\ upstreamCalls' = upstreamCalls
        /\ breaker' = breaker
        /\ cfg' = cfg
        /\ op' = op]_vars

C19_Witness ==
  /\ fn.name = "NewAccountClient"
  /\ fn.args[1] = InvalidURL
  /\ fn.args[2] = <<WithCustomHTTPClient(Timeout(0, 999))>>
  /\ fn.result.client = NilClient
  /\ hystrixCfg = ConfigureCommand(NoCommand, DefaultConfig)
  /\ upstreamCalls > 0

\* C20: once an operation has returned to its caller, no attempt and no pause
\* of that operation is in progress or still to come, also when the command's
\* Timeout elapses during the retry sequence
C20_NothingRunsAfterReturn ==
  \A p \in Procs :
    op[p].returned => op[p].pc \notin {"attempt", "check", "sleep", "reattempt"}

\* C30: DefaultRetryPolicy.ShouldRetry answers true for every error that is
\* or wraps a *url.Error, whatever the response: absent, below 500 or not
C30_UrlErrorIsRetriedWhateverTheResponse ==
  (/\ fn.name = "ShouldRetry"
   /\ fn.args[1] # NilErr
   /\ ErrorsAs(fn.args[1], "*url.Error")) => fn.result = TRUE

C30_Witness ==
  /\ fn.name = "ShouldRetry"
  /\ fn.args[1] = WrapErr(UrlError)
  /\ fn.args[2] = Response(404)
  /\ fn.result = TRUE

\* C29: in one call of retry that makes a attempts the strategy is asked for
\* exactly a - 1 delays, with the indices 0, 1, ..., a - 2 in this order; a
\* pause lies between two consecutive attempts, none precedes the first
\* attempt and none follows the last
C29_PausesLieBetweenAttempts ==
  \A p \in Procs :
    /\ Attempts(p) = 0 => op[p].sleeps = <<>>
    /\ op[p].pc = "reattempt" => Len(op[p].sleeps) = Attempts(p)
    /\ (Attempts(p) > 0 /\ op[p].pc # "reattempt") =>
         Len(op[p].sleeps) = Attempts(p) - 1
    /\ \A i \in 1..Len(op[p].sleeps) :
         op[p].sleeps[i] = Delay(cfg.backoff, i - 1)

C29_Witness ==
  \E p \in Procs :
    /\ cfg.backoff = ExponentialBackoffStrategy(1 * Millisecond, 10)
    /\ RetryReturned(p)
    /\ op[p].pc = "done"
    /\ Attempts(p) = 3
    /\ op[p].sleeps = <<Delay(cfg.backoff, 0), Delay(cfg.backoff, 1)>>
    /\ Delay(cfg.backoff, 0) # Delay(cfg.backoff, 1)

\* what a list of options leaves in a field: the value of the last option
\* for that field, or the starting value when no option names it
FieldAfter(options, field, start) ==
  IF \E i \in 1..Len(options) : options[i].field = field
    THEN options[CHOOSE i \in 1..Len(options) :
                   /\ options[i].field = field
                   /\ \A j \in (i + 1)..Len(options) : options[j].field # field
                ].value
    ELSE start

\* C25: a client built by NewAccountClient without options has retries off
\* (DefaultRetryPolicy with maxRetries 0, NoBackoffStrategy): an operation
\* running on it makes exactly one attempt and never sleeps, whatever the
\* outcome; and each option given replaces its own configuration field only
C25_NoOptionsMeansNoRetries ==
  (fn.name = "NewAccountClient" /\ fn.result.err = NilErr)
  => /\ cfg = fn.result.client
     /\ cfg.policy = FieldAfter(fn.args[2], "RetryPolicy", DefaultRetryPolicy(0))
     /\ cfg.backoff = FieldAfter(fn.args[2], "BackoffStrategy", NoBackoffStrategy)
     /\ hystrixCfg.Timeout
          = Milliseconds(FieldAfter(fn.args[2], "HTTPClient", Timeout(10000, 0)))
     /\ fn.args[2] = <<>>
          => /\ cfg = [policy |-> DefaultRetryPolicy(0),
                       backoff |-> NoBackoffStrategy]
             /\ \A p \in Procs :
                  Active(p)
                  => /\ Attempts(p) <= 1
                     /\ op[p].sleeps = <<>>
                     /\ op[p].pc \notin {"sleep", "reattempt"}
                     /\ RetryReturned(p) => Attempts(p) = 1

C25_Witness ==
  \E p \in Procs :
    /\ fn.name = "NewAccountClient"
    /\ fn.args[2] = <<>>
    /\ fn.result.err = NilErr
    /\ op[p].pc = "sendreq"
    /\ op[p].res = Response(StatusInternalServerError)
    /\ op[p].answer
    /\ Attempts(p) = 1
    /\ op[p].sleeps = <<>>

\* C28: FetchAccount and CreateAccount return a nil resource whenever the
\* error they return is non-nil (a classified error, a transport error, a
\* breaker-open error or a decode error) and a non-nil resource whenever the
\* error is nil
C28_ResourceIsNilExactlyWithAnError ==
  \A p \in Procs :
    (op[p].returned /\ op[p].kind \in {"create", "fetch"})
    => (op[p].outNil <=> op[p].outErr # NilErr)

C28_Witness ==
  \E p \in Procs :
    /\ op[p].pc = "done"
    /\ op[p].kind = "fetch"
    /\ op[p].ret.res = Response(200)
    /\ op[p].hErr = NilErr
    /\ op[p].resBody = Bytes(ServerErrorBody)
    /\ op[p].outErr # NilErr
    /\ op[p].outNil

\* C26 as stated: the breaker counts as failed every operation that ends
\* with an error, and books a success only for a final status below 400
C26_EveryErrorCountsAsFailure ==
  \A p \in Procs :
    (op[p].pc = "done" /\ op[p].returned)
    => /\ op[p].outErr # NilErr => op[p].recorded = "failure"
       /\ op[p].recorded = "success" => IsSuccess(op[p].ret.res)

\* C26: the breaker counts an operation as failed when its retried call
\* ends with an error: a final response of status 4xx just as one of 5xx, a
\* transport error, or a response body that could not be read; it books a
\* success only for a final status below 400, and then also when the body
\* read does not decode and the operation returns an error for it
C26_RetriedCallErrorCountsAsFailure ==
  \A p \in Procs :
    (op[p].recorded # "none" /\ ~op[p].rejected /\ ~op[p].timedOut)
    => /\ op[p].recorded = "failure" <=> op[p].swrErr # NilErr
       /\ op[p].ret.err # NilErr => op[p].recorded = "failure"
       /\ (op[p].ret.res.present /\ op[p].ret.res.StatusCode >= StatusBadRequest)
            => op[p].recorded = "failure"
       /\ op[p].recorded = "success"
            => /\ IsSuccess(op[p].ret.res)
               /\ ~op[p].readBody.isNil
       /\ (op[p].pc = "done" /\ op[p].recorded = "success" /\ op[p].outErr # NilErr)
            => /\ op[p].kind # "delete"
               /\ ~UnmarshalAccountOK(op[p].resBody.bytes)

C26_Witness ==
  \E p \in Procs :
    /\ op[p].pc = "done"
    /\ op[p].ret.res = Response(404)
    /\ op[p].recorded = "failure"
    /\ breaker.errors = 1
    /\ breaker.requests = 1
    /\ opsInvoked = 1

\* C27: a failure to close the final response body after it has been read is
\* only logged: the operation completes and hands its caller the outcome it
\* had, the decoded body on success and the RequestError on a status >= 400
C27_CloseFailureIsOnlyLogged ==
  \A p \in Procs :
    (op[p].closeFailed /\ ~op[p].readBody.isNil)
    => /\ op[p].pc # "panic"
       /\ op[p].swrErr
            = ReadAndClassify(op[p].ret.res,
                              [ok |-> TRUE, bytes |-> op[p].readBody.bytes]).err

\* C22: under the default policy an attempt that fails because the caller's
\* context was cancelled is retried like any transport failure: once the
\* context is cancelled every attempt fails with a *url.Error, and retry
\* goes on through the pauses of the backoff until its N retries are used up,
\* N + 1 attempts and N pauses in all
C22_CancellationIsRetriedToTheBudget ==
  \A p \in Procs :
    (CtxDone(p) /\ Attempts(p) > op[p].cancelAt)
    => /\ op[p].err = WrapErr(CanceledUrlError)
       /\ ~op[p].res.present
       /\ op[p].pc = "check" => DefaultShouldRetry(op[p].err, op[p].res)
       /\ RetryReturned(p)
            => /\ Attempts(p) = cfg.policy.maxRetries + 1
               /\ Len(op[p].sleeps) = cfg.policy.maxRetries
               /\ \A i \in 1..Len(op[p].sleeps) :
                    op[p].sleeps[i] = Delay(cfg.backoff, i - 1)
               /\ op[p].ret = [res |-> NilRes, err |-> WrapErr(CanceledUrlError)]

C22_Witness ==
  \E p \in Procs :
    /\ cfg.policy = DefaultRetryPolicy(2)
    /\ op[p].cancelAt = 1
    /\ op[p].pc = "done"
    /\ Attempts(p) = 3
    /\ Len(op[p].sleeps) = 2
    /\ ErrorsAs(op[p].outErr, "*url.Error")

\* C23: a custom RetryPolicy replaces the default decision: with the policy
\* that answers 'retry' for every response of status >= 400 and
\* NumberOfRetries() = N, an operation answered with a 4xx on every attempt
\* (a create with a body, a fetch without one) makes N + 1 attempts, sends
\* its body on each, and ends with a *RequestError carrying the 4xx status
\* of the last answer, not with a transport error
C23_CustomPolicyRetriesRefusals ==
  \A p \in Procs :
    (/\ cfg.policy.kind = "custom"
     /\ cfg.policy.maxRetries >= 0
     /\ op[p].all4xx
     /\ Attempts(p) > 0
     /\ RetryReturned(p))
    => /\ Attempts(p) = cfg.policy.maxRetries + 1
       /\ Len(op[p].sleeps) = cfg.policy.maxRetries
       /\ op[p].ret = [res |-> op[p].res, err |-> NilErr]
       /\ op[p].kind = "create"
            => \A i \in 1..Attempts(p) : op[p].sent[i] = CreateBody
       /\ op[p].pc = "done"
            => /\ op[p].outErr # NilErr
               /\ ErrorsAs(op[p].outErr, "*RequestError")
               /\ AsTarget(op[p].outErr, "*RequestError").StatusCode
                    = op[p].res.StatusCode
               /\ ~ErrorsAs(op[p].outErr, "*url.Error")

C23_Witness ==
  \E p \in Procs :
    /\ cfg.policy = CustomRetryPolicy(2)
    /\ op[p].kind = "create"
    /\ op[p].pc = "done"
    /\ op[p].all4xx
    /\ Attempts(p) = 3
    /\ op[p].sent = <<CreateBody, CreateBody, CreateBody>>
    /\ ErrorsAs(op[p].outErr, "*RequestError")
    /\ AsTarget(op[p].outErr, "*RequestError").StatusCode = StatusConflict

\* C24: against an upstream that stores accounts, a fetch that follows a
\* successful create of the account succeeds and returns the account data
\* that was sent; a fetch that follows a successful delete of the account
\* returns a nil account and a *RequestError of status 404
C24_CreateFetchDeleteFetch ==
  \A p \in Procs :
    (op[p].pc = "done" /\ op[p].kind = "fetch" /\ op[p].res.present)
    => /\ op[p].prev = "create"
            => /\ op[p].outErr = NilErr
               /\ ~op[p].outNil
               /\ op[p].account = AccountData
       /\ op[p].prev = "delete"
            => /\ op[p].outNil
               /\ op[p].account = NoAccount
               /\ ErrorsAs(op[p].outErr, "*RequestError")
               /\ AsTarget(op[p].outErr, "*RequestError").StatusCode
                    = StatusNotFound

C24_Witness ==
  \E p \in Procs :
    /\ opsInvoked = 4
    /\ op[p].pc = "done"
    /\ op[p].kind = "fetch"
    /\ op[p].prev = "delete"
    /\ scn.stored = NoAccount
    /\ upstreamCalls >= 4
    /\ ErrorsAs(op[p].outErr, "*RequestError")

\* what an operation that got responses only does when it runs alone under
\* DefaultRetryPolicy: it sends its own body on every attempt, goes on after
\* a status >= 500 until its own retries are used up, stops at the first
\* status below 500, and returns the classified last response
RunsAsAlone(p) ==
  /\ Attempts(p) = op[p].retriesCount + 1
  /\ Attempts(p) <= cfg.policy.maxRetries + 1
  /\ \A i \in 1..Attempts(p) :
       op[p].sent[i] = (IF op[p].kind = "create" THEN CreateBody ELSE <<>>)
  /\ op[p].res.present
  /\ op[p].res.StatusCode >= StatusInternalServerError
       => Attempts(p) = cfg.policy.maxRetries + 1
  /\ op[p].res.StatusCode < StatusInternalServerError => op[p].prior5xx
  /\ op[p].outErr
       = WrapErr(WrapErr(reqErrFromResponse(op[p].readBody.bytes,
                                            op[p].res.StatusCode)))

\* C21 as stated: operations invoked side by side on one client touch no
\* shared mutable state, so each of them makes the attempts, sends the bytes
\* and returns the outcome it would alone against the same answers
C21_ConcurrentOperationsRunAsAlone ==
  \A p \in Procs :
    (op[p].pc = "done" /\ \E q \in Procs \ {p} : Active(q))
    => RunsAsAlone(p)

\* C21: operations invoked side by side on one client share no state of the
\* client or of the retrier, only the process-wide breaker: every operation
\* the breaker admits makes the attempts, sends the bytes and returns the
\* outcome it would alone against the same answers, for any interleaving;
\* an operation the breaker rejects makes no attempt
C21_AdmittedOperationsRunAsAlone ==
  \A p \in Procs :
    op[p].pc = "done"
    => IF op[p].rejected
         THEN Attempts(p) = 0 /\ breaker.open
         ELSE RunsAsAlone(p)

C21_Witness ==
  /\ op["p1"].pc = "done"
  /\ op["p1"].kind = "create"
  /\ ~op["p1"].rejected
  /\ Attempts("p1") = 2
  /\ op["p2"].pc = "reattempt"
  /\ op["p2"].kind = "create"
  /\ upstreamCalls = 3

\* C32: every outcome of the client's attempt function has exactly one of
\* response and error: a response with a nil error, or a nil response with an
\* error wrapping a *url.Error; the policy never sees the pair (nil, nil),
\* and sendRequestWithRetries reads the final response only when the final
\* error is nil, so it never dereferences a nil response
C32_AttemptYieldsResponseOrError ==
  \A p \in Procs :
    /\ Attempts(p) > 0 /\ op[p].pc \notin {"attempt", "reattempt"}
       => /\ op[p].res.present <=> op[p].err = NilErr
          /\ op[p].err # NilErr => ErrorsAs(op[p].err, "*url.Error")
    /\ RetryReturned(p) /\ Attempts(p) > 0
       => (op[p].ret.res.present <=> op[p].ret.err = NilErr)
    /\ op[p].readBody # NilBytes => op[p].ret.res.present /\ op[p].ret.err = NilErr
    /\ op[p].pc # "panic"

C32_Witness ==
  \E p \in Procs :
    /\ op[p].pc = "done"
    /\ Attempts(p) = 2
    /\ op[p].ret.res.present
    /\ op[p].ret.err = NilErr
    /\ op[p].readBody # NilBytes
    /\ op[p].prior5xx = FALSE

\* C33: the budget test of retry is the equality retriesCount = maxRetries.
\* With NumberOfRetries() >= 0 the count reaches the budget and every
\* operation makes at most maxRetries + 1 attempts; with a negative
\* NumberOfRetries() the count starts above the budget and never equals it,
\* so retry returns only on an answer of false from ShouldRetry, and under
\* the default policy against an upstream that answers 500 every time it
\* never returns
C33_NegativeBudgetIsNeverReached ==
  \A p \in Procs :
    LET N == NumberOfRetries(cfg.policy)
    IN  /\ N >= 0 => Attempts(p) <= N + 1 /\ op[p].retriesCount <= N
        /\ N < 0 /\ Attempts(p) > 0
           => /\ op[p].retriesCount = Attempts(p) - 1
              /\ ~BudgetReached(op[p].retriesCount, N)
              /\ RetryReturned(p) => ~op[p].answer
              /\ cfg.policy.kind = "default" /\ op[p].all500
                 => op[p].pc \in {"check", "sleep", "reattempt"}

C33_Witness ==
  \E p \in Procs :
    /\ NumberOfRetries(cfg.policy) < 0
    /\ cfg.policy.kind = "default"
    /\ op[p].all500
    /\ op[p].pc = "sleep"
    /\ Attempts(p) = AttemptCap
    /\ op[p].retriesCount > MaxRetries

\* C35: for a request built without a body (FetchAccount, DeleteAccount)
\* retry takes no snapshot and the first attempt runs with http.NoBody
\* untouched; before every retry the body is replaced by a new, unread
\* reader over zero bytes, which is not http.NoBody; every attempt sends an
\* empty body
C35_NoBodyRequestIsResetToEmptyReader ==
  \A p \in Procs :
    op[p].kind \in {"fetch", "delete"}
    => /\ op[p].originalBody = <<>>
       /\ Attempts(p) = 0 => op[p].body = NoBody
       /\ Attempts(p) = 1 /\ op[p].pc # "reattempt" => op[p].body = NoBody
       /\ op[p].pc = "reattempt"
          => /\ op[p].body = NewBuffer(<<>>)
             /\ op[p].body # NoBody
             /\ ~op[p].body.closed
       /\ \A i \in 1..Attempts(p) : op[p].sent[i] = <<>>

C35_Witness ==
  \E p \in Procs :
    /\ op[p].kind = "delete"
    /\ op[p].pc = "reattempt"
    /\ Attempts(p) = 2
    /\ op[p].body = NewBuffer(<<>>)
    /\ op[p].sent = <<<<>>, <<>>>>

\* the operations invoked whose outcome the breaker has not booked yet
Unrecorded == {p \in Procs : op[p].pc # "idle" /\ op[p].recorded = "none"}

\* C37: the breaker books exactly one outcome per client operation, the
\* outcome of the whole retry sequence: its request count is the number of
\* operations that have reported, no attempt changes its counts, and the
\* step that books an operation adds one request, and one error exactly when
\* sendRequestWithRetries returned an error; an operation of N + 1 failing
\* attempts is one failure, and one whose retries end in success is one
\* success
C37_BreakerRecordsOneOutcomePerOperation ==
  /\ [](/\ breaker.requests = opsInvoked - Cardinality(Unrecorded)
        /\ breaker.errors <= breaker.requests
        /\ \A p \in Procs :
             op[p].pc = "done"
             => /\ op[p].recorded # "none"
                /\ op[p].recorded = "failure" <=> op[p].swrErr # NilErr)
  /\ [][\A p \in Procs :
          /\ Attempts(p)' # Attempts(p) /\ Attempts(p)' > 0
             => breaker' = breaker
          /\ op[p].recorded = "none" /\ op'[p].recorded # "none"
             => /\ breaker'.requests = breaker.requests + 1
                /\ breaker'.errors = breaker.errors +
                     (IF op[p].swrErr # NilErr THEN 1 ELSE 0)
                /\ upstreamCalls' = upstreamCalls
          /\ op[p].recorded # "none" /\ op'[p].recorded # "none"
             => /\ breaker'.requests = breaker.requests
                /\ breaker'.errors = breaker.errors]_vars

C37_Witness ==
  \E p \in Procs :
    /\ op[p].pc = "done"
    /\ Attempts(p) = 3
    /\ op[p].prior5xx
    /\ op[p].swrErr = NilErr
    /\ op[p].recorded = "success"
    /\ opsInvoked = 1
    /\ breaker.requests = 1
    /\ breaker.errors = 0

\* C34: by the time an operation returns, the body of every response any of
\* its attempts obtained has been closed, the responses of the retried
\* attempts included
C34_EveryResponseBodyIsClosed ==
  \A p \in Procs : op[p].pc = "done" => op[p].unclosed = 0

\* the last attempt's outcome is one the default policy does not retry: a
\* response of status < 500, or an error that is no *url.Error
Unretryable(p) ==
  \/ op[p].res.present /\ op[p].res.StatusCode < StatusInternalServerError
  \/ op[p].err # NilErr /\ ~ErrorsAs(op[p].err, "*url.Error")

\* C31: under the default policy with maxRetries N > 0, an attempt answered
\* with a status < 500 or failing with an error that is no *url.Error ends
\* the sequence at once: retry returns that outcome without another sleep or
\* attempt, and what is left of the budget stays unspent
C31_UnretryableOutcomeEndsSequence ==
  \A p \in Procs :
    (/\ cfg.policy.kind = "default"
     /\ NumberOfRetries(cfg.policy) > 0
     /\ Attempts(p) > 0
     /\ op[p].pc \notin {"attempt", "reattempt", "check"}
     /\ Unretryable(p))
    => /\ op[p].pc \in {"swr", "done"}
       /\ ~op[p].answer
       /\ op[p].ret = [res |-> op[p].res, err |-> op[p].err]
       /\ Len(op[p].sleeps) = Attempts(p) - 1
       /\ op[p].retriesCount = Attempts(p) - 1

C31_Witness ==
  \E p \in Procs :
    /\ NumberOfRetries(cfg.policy) = MaxRetries
    /\ op[p].pc = "done"
    /\ Attempts(p) = 2
    /\ op[p].prior5xx
    /\ op[p].err = GenericError
    /\ Len(op[p].sleeps) = 1

\* C36: when the snapshot of the request body fails, because reading or
\* closing the original body returns an error, retry returns a nil response
\* and that error, wrapped, and has made no attempt, asked the policy
\* nothing and slept not at all
C36_SnapshotFailureReturnsAtOnce ==
  /\ [][\A p \in Procs :
          (op[p].pc = "retry" /\ (op[p].body.readErr \/ op[p].body.closeErr))
          => /\ op'[p].pc = "swr"
             /\ op'[p].ret = [res |-> NilRes,
                              err |-> WrapErr(WrapErr(GenericError))]
             /\ op'[p].body = op[p].body
             /\ upstreamCalls' = upstreamCalls]_vars
  /\ [](\A p \in Procs :
          (op[p].kind = "retry" /\ op[p].pc # "retry"
           /\ (op[p].body.readErr \/ op[p].body.closeErr))
          => /\ op[p].pc \in {"swr", "done"}
             /\ op[p].ret = [res |-> NilRes,
                             err |-> WrapErr(WrapErr(GenericError))]
             /\ Attempts(p) = 0
             /\ op[p].sleeps = <<>>
             /\ ~op[p].answer
             /\ op[p].retriesCount = 0)

C36_Witness ==
  \E p \in Procs :
    /\ op[p].kind = "retry"
    /\ op[p].pc = "done"
    /\ op[p].body.closeErr
    /\ op[p].ret.err = WrapErr(WrapErr(GenericError))
    /\ ~op[p].ret.res.present
    /\ upstreamCalls = 0

RECURSIVE TotalCalls(_)
TotalCalls(calls) ==
  IF calls = <<>> THEN 0 ELSE Head(calls) + TotalCalls(Tail(calls))

\* C38: the breaker and the settings of the command "account-client" belong
\* to the process, not to a client: whichever client an operation is invoked
\* on, it is booked in the one breaker, so the breaker's counts are those of
\* all clients together and an operation is short-circuited once they reach
\* the thresholds, whatever its own client has done; building a client leaves
\* the breaker's counts as they are and sets the command's timeout to the new
\* client's, also for the clients built before
C38_ClientsShareOneBreaker ==
  /\ [](/\ hystrixCfg.commands = Len(scn.clients)
        /\ Len(scn.clients) > 0
           => hystrixCfg.Timeout = scn.clients[Len(scn.clients)].timeout
        /\ opsInvoked = TotalCalls(scn.calls)
        /\ breaker.requests = TotalCalls(scn.calls) - Cardinality(Unrecorded)
        /\ breaker.errors = breaker.requests
        /\ \A p \in Procs :
             op[p].rejected
             => /\ breaker.open
                /\ TotalCalls(scn.calls) > requestVolumeThreshold)
  /\ [][Len(scn'.clients) # Len(scn.clients)
        => /\ breaker' = breaker
           /\ hystrixCfg'.Timeout = scn'.clients[Len(scn'.clients)].timeout
           /\ \A i \in 1..Len(scn.clients) : scn'.clients[i] = scn.clients[i]]_vars

C38_Witness ==
  \E p \in Procs :
    /\ Len(scn.clients) = 2
    /\ scn.using = 1
    /\ scn.calls = <<1, requestVolumeThreshold>>
    /\ op[p].pc = "done"
    /\ op[p].rejected
    /\ Attempts(p) = 0
    /\ scn.clients[1].timeout # scn.clients[2].timeout
    /\ hystrixCfg.Timeout = scn.clients[2].timeout

====
